---- MODULE Spec2Model ----
(***************************************************************************)
(* Model of the incremental server renderer of                             *)
(* src/renderers/dom/server/ReactServerRenderingAsync.js.                  *)
(*                                                                         *)
(* JavaScript values are tagged records ([k |-> "null"], [k |-> "str",     *)
(* s |-> <<chars>>], [k |-> "elem", type |-> .., props |-> ..], ...).      *)
(* Strings are sequences of one-character strings, so that .length is Len  *)
(* and concatenation is \o.  A tree node ("tree position") is a record     *)
(* that renderImpl rewrites in place; here renderImpl returns the          *)
(* rewritten node next to its JavaScript result.                           *)
(***************************************************************************)
EXTENDS Integers, Sequences, FiniteSets, TLC

VARIABLES
  element,          \* the element handed to render()
  makeStaticMarkup, \* third argument of render()
  tree,             \* the root tree node owned by the generator closures
  result,           \* the result of the last renderImpl call: [done, text]
  length,           \* the length argument of the last call
  out,              \* concatenation of the .text of every result so far
  uniform,          \* TRUE while every call of the session used the same length
  world,            \* [log, queue]: instrumentation log and updater.queue
  phase,            \* "start", "paused", "done", "ended", or the error thrown
  server,           \* the process-wide modules the top-level entry points use
  stream,           \* one RenderStream of ReactServerAsyncRendering and its consumer
  adler,            \* the Adler32Stream the RenderStream is piped into
  callback,         \* one call of renderToStringStream(element, res) and its res
  lazy,             \* one StringLazyTree and the run calls made on it
  buffered          \* one bufferedStream and the stream it writes to

vars == <<element, makeStaticMarkup, tree, result, length, out, uniform,
          world, phase, server, stream, adler, callback, lazy, buffered>>

-----------------------------------------------------------------------------
(* Bounds of the model.                                                    *)

\* the lengths tried next to Infinity are the cubes of 1..MaxLength
MaxLength == 3
\* longest children array of a generated host element
MaxWidth == 3
\* number of wrappers put around a generated host element
MaxDepth == 1
\* the number of top-level calls made in one process
MaxCalls == 2
\* the length of the markup a RenderStream delivers
MaxText == 5
\* the sizes the consumer of a RenderStream asks for are 1..MaxPull
MaxPull == 3
\* the maxStackDepth values a RenderStream is made with are 1..MaxStackDepth
MaxStackDepth == 2
\* the number of times the hash property of one stream is read
MaxReads == 2
\* the buffer length at which the res branch writes: 16 * 1024 in the source,
\* brought down to the length of the texts of the model
BufferLimit == 3
\* the lengths a StringLazyTree is run with are 1..MaxBudget
MaxBudget == 3
\* the bufferSize values a bufferedStream is made with are 1..MaxBufferSize
MaxBufferSize == 3
\* the number of write, flush and end calls made on one bufferedStream
MaxBufferedCalls == 4

-----------------------------------------------------------------------------
(* JavaScript values.                                                      *)

Null == [k |-> "null"]
False == [k |-> "false"]
True == [k |-> "true"]
Object == [k |-> "obj"]
Undefined == [k |-> "undef"]
Str(s) == [k |-> "str", s |-> s]
Num(n) == [k |-> "num", n |-> n]
Arr(items) == [k |-> "arr", items |-> items]
Tag(name) == [k |-> "tag", name |-> name]
Comp(name) == [k |-> "comp", name |-> name]
Elem(type, props) == [k |-> "elem", type |-> type, props |-> props]

EMPTY_OBJECT == [n \in {} |-> Undefined]

\* props[name], undefined when the object has no such property
Get(obj, name) == IF name \in DOMAIN obj THEN obj[name] ELSE Undefined

hasOwnProperty(obj, name) == name \in DOMAIN obj

\* Object.assign({}, a, b)
ObjectAssign(a, b) ==
  [n \in (DOMAIN a) \cup (DOMAIN b) |-> IF n \in DOMAIN b THEN b[n] ELSE a[n]]

\* ToBoolean
Truthy(v) ==
  CASE v.k \in {"null", "false", "undef"} -> FALSE
    [] v.k = "str" -> Len(v.s) > 0
    [] v.k = "num" -> v.n # 0
    [] OTHER -> TRUE

\* a === b for the primitive values the engine compares
StrictEq(a, b) ==
  /\ a.k = b.k
  /\ CASE a.k = "str" -> a.s = b.s
       [] a.k = "num" -> a.n = b.n
       [] a.k \in {"null", "false", "undef"} -> TRUE
       [] OTHER -> FALSE

Digits == <<"0", "1", "2", "3", "4", "5", "6", "7", "8", "9">>

RECURSIVE NumToString(_)
NumToString(n) ==
  IF n < 10 THEN <<Digits[n + 1]>>
  ELSE NumToString(n \div 10) \o <<Digits[(n % 10) + 1]>>

\* '' + v for a string or a number
toStr(v) == IF v.k = "num" THEN NumToString(v.n) ELSE v.s

LowerAlphabet ==
  <<"a", "b", "c", "d", "e", "f", "g", "h", "i", "j", "k", "l", "m",
    "n", "o", "p", "q", "r", "s", "t", "u", "v", "w", "x", "y", "z">>
UpperAlphabet ==
  <<"A", "B", "C", "D", "E", "F", "G", "H", "I", "J", "K", "L", "M",
    "N", "O", "P", "Q", "R", "S", "T", "U", "V", "W", "X", "Y", "Z">>

UpperCase == {UpperAlphabet[j] : j \in 1..Len(UpperAlphabet)}

toLowerCase(s) ==
  [i \in 1..Len(s) |->
    IF s[i] \in UpperCase
    THEN LowerAlphabet[CHOOSE j \in 1..Len(UpperAlphabet) : UpperAlphabet[j] = s[i]]
    ELSE s[i]]

escapeChar(c) ==
  CASE c = "&" -> <<"&", "a", "m", "p", ";">>
    [] c = "<" -> <<"&", "l", "t", ";">>
    [] c = ">" -> <<"&", "g", "t", ";">>
    [] c = "\"" -> <<"&", "q", "u", "o", "t", ";">>
    [] c = "'" -> <<"&", "#", "x", "2", "7", ";">>
    [] OTHER -> <<c>>

RECURSIVE escapeTextContentForBrowser(_)
escapeTextContentForBrowser(s) ==
  IF s = <<>> THEN <<>>
  ELSE escapeChar(Head(s)) \o escapeTextContentForBrowser(Tail(s))

-----------------------------------------------------------------------------
(* Lengths: a positive integer or Infinity.                                *)

Infinity == [inf |-> TRUE, n |-> 0]
Finite(n) == [inf |-> FALSE, n |-> n]

\* line 189 with the test text.length > length
ReachedLengthStrict(text, len) == ~len.inf /\ Len(text) > len.n

\* text.length >= length
ReachedLength(text, len) == ~len.inf /\ Len(text) >= len.n

\* length - text.length - 1: the child is given one character less
RemainingLengthLessOne(len, text) ==
  IF len.inf THEN len ELSE Finite(len.n - Len(text) - 1)

\* length - text.length
RemainingLength(len, text) ==
  IF len.inf THEN len ELSE Finite(len.n - Len(text))

-----------------------------------------------------------------------------
(* Component types.  A component type is the input of the engine: what the *)
(* engine reads of it is its prototype marker, its static contextTypes and *)
(* childContextTypes, and the hooks of the instance it constructs.  The    *)
(* types below are those of the repository's tests.                        *)

\* what render() (or the function itself) returns
Const(v) == [r |-> "const", v |-> v, key |-> ""]
PropsChildren == [r |-> "children", v |-> Null, key |-> ""]
DivOfChildren == [r |-> "divOfChildren", v |-> Null, key |-> ""]
DivOfContext(key) == [r |-> "context", v |-> Null, key |-> key]
DivOfState(key) == [r |-> "state", v |-> Null, key |-> key]

NoKeys == [has |-> FALSE, keys |-> {}]
Keys(ks) == [has |-> TRUE, keys |-> ks]
\* a hook: whether it is defined, the keys of this.state it returns, the other
\* keys it returns, and the partial states it passes to setState, in order
NoHook == [has |-> FALSE, value |-> EMPTY_OBJECT, stateKeys |-> {}, setState |-> <<>>]

Class(render) ==
  [isReactComponent |-> TRUE, hasRender |-> TRUE, render |-> render,
   contextTypes |-> NoKeys, childContextTypes |-> NoKeys,
   getChildContext |-> NoHook, componentWillMount |-> NoHook,
   state |-> EMPTY_OBJECT, otherHooks |-> {}, setStateInRender |-> <<>>]

Function(render) == [Class(render) EXCEPT !.isReactComponent = FALSE, !.hasRender = FALSE]

\* a function that returns an object with a render method, as Foo of the test
\* 'can render a factory component'
Factory(render) == [Class(render) EXCEPT !.isReactComponent = FALSE]

Purple == Str(<<"p", "u", "r", "p", "l", "e">>)
Red == Str(<<"r", "e", "d">>)

DIV == <<"d", "i", "v">>
SPAN == <<"s", "p", "a", "n">>
IMG == <<"i", "m", "g">>
PRE == <<"p", "r", "e">>

Components ==
  [ NullComponent |-> Class(Const(Null)),
    FalseComponent |-> Class(Const(False)),
    UndefinedComponent |-> Function(Const(Undefined)),
    UndefinedClass |-> Class(Const(Undefined)),
    Foo |-> Function(Const(Elem(Tag(DIV), EMPTY_OBJECT))),
    Wrapper |-> Class(DivOfChildren),
    Passthrough |-> Function(PropsChildren),
    Parent |->
      [Class(PropsChildren) EXCEPT
         !.childContextTypes = Keys({"text", "other"}),
         !.getChildContext =
            [NoHook EXCEPT !.has = TRUE,
                           !.value = [text |-> Purple, other |-> Str(<<"x">>)]]],
    ClassChildWithContext |->
      [Class(DivOfContext("text")) EXCEPT !.contextTypes = Keys({"text"})],
    StatelessChildWithContext |->
      [Function(DivOfContext("text")) EXCEPT !.contextTypes = Keys({"text"})],
    ClassChildWithWrongContext |->
      [Class(DivOfContext("text")) EXCEPT !.contextTypes = Keys({"foo"})],
    ClassChildWithoutContext |-> Class(DivOfContext("text")),
    StatelessChildWithoutContext |-> Function(DivOfContext("text")),
    WillMount |->
      [Class(DivOfState("text")) EXCEPT
         !.state = [text |-> Str(<<"a">>)],
         !.componentWillMount =
            [NoHook EXCEPT !.has = TRUE, !.setState = <<[text |-> Str(<<"b">>)]>>]],
    RedChild |->
      [Class(PropsChildren) EXCEPT
         !.childContextTypes = Keys({"text"}),
         !.getChildContext = [NoHook EXCEPT !.has = TRUE, !.value = [text |-> Red]]],
    BothChild |->
      [Function(DivOfContext("text")) EXCEPT !.contextTypes = Keys({"text", "other"})],
    SelfProvider |->
      [Class(DivOfContext("text")) EXCEPT
         !.contextTypes = Keys({"text"}),
         !.childContextTypes = Keys({"text"}),
         !.getChildContext = [NoHook EXCEPT !.has = TRUE, !.value = [text |-> Red]]],
    StateParent |->
      [Class(PropsChildren) EXCEPT
         !.childContextTypes = Keys({"text"}),
         !.getChildContext = [NoHook EXCEPT !.has = TRUE, !.stateKeys = {"text"}],
         !.componentWillMount =
            [NoHook EXCEPT !.has = TRUE, !.setState = <<[text |-> Str(<<"f", "o", "o">>)]>>]],
    WillMountTwice |->
      [Class(DivOfState("text")) EXCEPT
         !.state = [text |-> Str(<<"a">>), name |-> Str(<<"n">>)],
         !.componentWillMount =
            [NoHook EXCEPT !.has = TRUE,
                           !.setState = <<[text |-> Str(<<"b">>)], [text |-> Str(<<"c">>)]>>]],
    \* the component of the test 'should only execute certain lifecycle methods'
    TestComponent |->
      [Class(DivOfState("name")) EXCEPT
         !.state = [name |-> Str(<<"T">>)],
         !.componentWillMount = [NoHook EXCEPT !.has = TRUE],
         !.otherHooks = {"componentDidMount", "componentWillUpdate", "componentDidUpdate",
                         "shouldComponentUpdate", "componentWillReceiveProps",
                         "componentWillUnmount"}],
    \* a component whose render calls this.setState before it returns
    SetStateInRender |->
      [Class(DivOfState("text")) EXCEPT
         !.state = [text |-> Str(<<"a">>)],
         !.setStateInRender = <<[text |-> Str(<<"z">>)]>>],
    \* the function of the test 'can render a factory component'
    FactoryFoo |-> Factory(Const(Elem(Tag(DIV), [children |-> Str(<<"F", "o", "o">>)]))),
    \* a function whose returned object has all three methods
    FactoryProvider |->
      [Factory(PropsChildren) EXCEPT
         !.childContextTypes = Keys({"text"}),
         !.getChildContext = [NoHook EXCEPT !.has = TRUE, !.value = [text |-> Red]],
         !.componentWillMount = [NoHook EXCEPT !.has = TRUE]],
    NoChildContextTypes |->
      [Class(Const(Elem(Tag(DIV), EMPTY_OBJECT))) EXCEPT
         !.getChildContext = [NoHook EXCEPT !.has = TRUE, !.value = [foo |-> Str(<<"b">>)]]],
    UndeclaredKey |->
      [Class(Const(Elem(Tag(DIV), EMPTY_OBJECT))) EXCEPT
         !.childContextTypes = Keys({"value1"}),
         !.getChildContext =
            [NoHook EXCEPT !.has = TRUE,
                           !.value = [value1 |-> Str(<<"f">>), value2 |-> Str(<<"b">>)]]] ]

\* the value render() returns for an instance [props, context, state]
RenderOutput(def, inst) ==
  CASE def.render.r = "const" -> def.render.v
    [] def.render.r = "children" -> Get(inst.props, "children")
    [] def.render.r = "divOfChildren" ->
         Elem(Tag(DIV), [children |-> Get(inst.props, "children")])
    [] def.render.r = "context" ->
         Elem(Tag(DIV), [children |-> Get(inst.context, def.render.key)])
    [] def.render.r = "state" ->
         Elem(Tag(DIV), [children |-> Get(inst.state, def.render.key)])

-----------------------------------------------------------------------------
(* The updater and getNativeComponent.                                     *)

\* world: the instrumentation log and the module-level updater.queue
Event(ev, at, inst, name, exposed, context) ==
  [ev |-> ev, at |-> at, inst |-> inst, name |-> name,
   exposed |-> exposed, context |-> context]

Logged(w, e) == [w EXCEPT !.log = Append(@, e)]

\* typeof element.type
typeofType(el) ==
  IF el.k # "elem" THEN "undefined"
  ELSE CASE el.type.k = "tag" -> "string"
         [] el.type.k = "num" -> "number"
         [] el.type.k = "comp" -> "function"
         [] el.type.k = "undef" -> "undefined"
         [] OTHER -> "object"

shouldConstruct(type) == type.k = "comp" /\ Components[type.name].isReactComponent

\* the whole context handed to the component
filterContextAll(context, types) == context

filterContext(context, types) == [name \in types |-> Get(context, name)]

\* element.type.contextTypes ? filterContext(context, contextTypes) : EMPTY_OBJECT
contextToExpose(type, context) ==
  IF type.k = "comp" /\ Components[type.name].contextTypes.has
  THEN filterContext(context, Components[type.name].contextTypes.keys)
  ELSE EMPTY_OBJECT

\* updater.enqueueSetState for every setState call of a hook
RECURSIVE enqueueSetState(_, _, _)
enqueueSetState(queue, id, partials) ==
  IF partials = <<>> THEN queue
  ELSE enqueueSetState(Append(queue, [inst |-> id, partialState |-> Head(partials)]),
                       id, Tail(partials))

\* setState bound to an instance: the state of instance id after the callbacks
RECURSIVE drainQueue(_, _, _)
drainQueue(queue, id, state) ==
  IF queue = <<>> THEN state
  ELSE drainQueue(Tail(queue), id,
                  IF Head(queue).inst = id
                  THEN ObjectAssign(state, Head(queue).partialState)
                  ELSE state)

Resolved(el, context, w) ==
  [element |-> el, context |-> context, threw |-> "none", w |-> w]

ResolveThrew(el, context, error, w) ==
  [element |-> el, context |-> context, threw |-> error, w |-> w]

RECURSIVE getNativeComponentLoop(_, _, _, _, _)

\* lines 293-299: element = component.render(), and round the loop again; a
\* setState made inside render goes to updater.queue (lines 386-388)
renderComponent(el, context, id, def, exposed, state, w) ==
  getNativeComponentLoop(
    RenderOutput(def, [props |-> el.props, context |-> exposed, state |-> state]),
    context, id[1], id[2] + 1,
    [Logged(w, Event("render", id, id, el.type.name, exposed, context))
       EXCEPT !.queue = enqueueSetState(@, id, def.setStateInRender)])

\* what component.getChildContext() returns for an instance with this state
getChildContext(def, state) ==
  ObjectAssign(def.getChildContext.value,
               [n \in def.getChildContext.stateKeys |-> Get(state, n)])

\* lines 278-291 without the two throws
mergeChildContextUnchecked(el, context, id, def, exposed, state, w) ==
  IF ~def.getChildContext.has
  THEN renderComponent(el, context, id, def, exposed, state, w)
  ELSE renderComponent(el, ObjectAssign(context, getChildContext(def, state)), id, def,
                       exposed, state,
                       Logged(w, Event("getChildContext", id, id, el.type.name, exposed, context)))

\* lines 278-291 with the merge the other way round: Object.assign({}, childContext, context)
mergeChildContextFartherWins(el, context, id, def, exposed, state, w) ==
  IF ~def.getChildContext.has
  THEN renderComponent(el, context, id, def, exposed, state, w)
  ELSE IF ~def.childContextTypes.has
  THEN ResolveThrew(el, context, "ChildContextTypesMissing", w)
  ELSE IF \E n \in DOMAIN getChildContext(def, state) : n \notin def.childContextTypes.keys
  THEN ResolveThrew(el, context, "ChildContextKeyUndeclared",
                    Logged(w, Event("getChildContext", id, id, el.type.name, exposed, context)))
  ELSE renderComponent(el, ObjectAssign(getChildContext(def, state), context), id, def,
                       exposed, state,
                       Logged(w, Event("getChildContext", id, id, el.type.name, exposed, context)))

\* lines 278-291: getChildContext and its checks
mergeChildContext(el, context, id, def, exposed, state, w) ==
  IF ~def.getChildContext.has
  THEN renderComponent(el, context, id, def, exposed, state, w)
  ELSE IF ~def.childContextTypes.has
  THEN ResolveThrew(el, context, "ChildContextTypesMissing", w)
  ELSE IF \E n \in DOMAIN getChildContext(def, state) : n \notin def.childContextTypes.keys
  THEN ResolveThrew(el, context, "ChildContextKeyUndeclared",
                    Logged(w, Event("getChildContext", id, id, el.type.name, exposed, context)))
  ELSE renderComponent(el, ObjectAssign(context, getChildContext(def, state)), id, def,
                       exposed, state,
                       Logged(w, Event("getChildContext", id, id, el.type.name, exposed, context)))

\* lines 269-276 with the queue emptied but its callbacks not yet run
mountComponentLateDrain(el, context, id, def, exposed, w) ==
  IF def.componentWillMount.has
  THEN mergeChildContext(el, context, id, def, exposed, def.state,
         [Logged(w, Event("componentWillMount", id, id, el.type.name, exposed, context))
            EXCEPT !.queue = <<>>])
  ELSE mergeChildContext(el, context, id, def, exposed, def.state, [w EXCEPT !.queue = <<>>])

\* lines 269-276: componentWillMount, then updater.drainQueue()
mountComponent(el, context, id, def, exposed, w) ==
  IF def.componentWillMount.has
  THEN mergeChildContext(el, context, id, def, exposed,
         drainQueue(enqueueSetState(w.queue, id, def.componentWillMount.setState),
                    id, def.state),
         [Logged(w, Event("componentWillMount", id, id, el.type.name, exposed, context))
            EXCEPT !.queue = <<>>])
  ELSE mergeChildContext(el, context, id, def, exposed,
         drainQueue(w.queue, id, def.state), [w EXCEPT !.queue = <<>>])

\* lines 257-267 with the value a plain function returns taken as the element
\* whatever methods it has
instantiateNeverMounts(el, context, id, def, exposed, w) ==
  IF def.isReactComponent
  THEN IF ~def.hasRender
       THEN ResolveThrew(el, context, "NoRenderMethod",
                         Logged(w, Event("construct", id, id, el.type.name, exposed, context)))
       ELSE mountComponent(el, context, id, def, exposed,
                           Logged(w, Event("construct", id, id, el.type.name, exposed, context)))
  ELSE getNativeComponentLoop(
         RenderOutput(def, [props |-> el.props, context |-> exposed, state |-> EMPTY_OBJECT]),
         context, id[1], id[2] + 1,
         [Logged(w, Event("call", id, id, el.type.name, exposed, context))
            EXCEPT !.queue = <<>>])

\* lines 257-267: new element.type(props, context, updater), or a plain call.
\* The value a plain function returns is tested for componentWillMount,
\* getChildContext and render as an instance is (lines 270, 278, 294): the
\* object a Factory returns has them, the elements and primitives the other
\* functions of Components return have none.
instantiate(el, context, id, def, exposed, w) ==
  IF def.isReactComponent
  THEN IF ~def.hasRender
       THEN ResolveThrew(el, context, "NoRenderMethod",
                         Logged(w, Event("construct", id, id, el.type.name, exposed, context)))
       ELSE mountComponent(el, context, id, def, exposed,
                           Logged(w, Event("construct", id, id, el.type.name, exposed, context)))
  ELSE IF def.hasRender
  THEN mountComponent(el, context, id, def, exposed,
                      Logged(w, Event("call", id, id, el.type.name, exposed, context)))
  ELSE getNativeComponentLoop(
         RenderOutput(def, [props |-> el.props, context |-> exposed, state |-> EMPTY_OBJECT]),
         context, id[1], id[2] + 1,
         [Logged(w, Event("call", id, id, el.type.name, exposed, context))
            EXCEPT !.queue = <<>>])

\* lines 246-302; depth counts the turns of the while loop
getNativeComponentLoop(el, context, path, depth, w) ==
  IF ~(Truthy(el) /\ typeofType(el) \notin {"string", "number", "undefined"})
  THEN Resolved(el, context, w)
  \* line 253: element.type.contextTypes of a null type
  ELSE IF el.type.k = "null" THEN ResolveThrew(el, context, "TypeError", w)
  ELSE IF el.type.k # "comp"
  \* a type that is neither constructed nor called: component stays null
  THEN getNativeComponentLoop(Null, context, path, depth + 1, [w EXCEPT !.queue = <<>>])
  ELSE instantiate(el, context, <<path, depth>>, Components[el.type.name],
                   contextToExpose(el.type, context), w)

getNativeComponent(el, context, path, w) ==
  getNativeComponentLoop(el, context, path, 0, w)

-----------------------------------------------------------------------------
(* Markup formatting.                                                      *)

voidTags ==
  { <<"a", "r", "e", "a">>, <<"b", "a", "s", "e">>, <<"b", "r">>,
    <<"c", "o", "l">>, <<"e", "m", "b", "e", "d">>, <<"h", "r">>,
    <<"i", "m", "g">>, <<"i", "n", "p", "u", "t">>,
    <<"k", "e", "y", "g", "e", "n">>, <<"l", "i", "n", "k">>,
    <<"m", "e", "t", "a">>, <<"p", "a", "r", "a", "m">>,
    <<"s", "o", "u", "r", "c", "e">>, <<"t", "r", "a", "c", "k">>,
    <<"w", "b", "r">> }

newlineEatingTags ==
  { <<"l", "i", "s", "t", "i", "n", "g">>, <<"p", "r", "e">>,
    <<"t", "e", "x", "t", "a", "r", "e", "a">> }

TEXTAREA == <<"t", "e", "x", "t", "a", "r", "e", "a">>
SELECT == <<"s", "e", "l", "e", "c", "t">>
OPTION == <<"o", "p", "t", "i", "o", "n">>

REACT_EMPTY ==
  <<"<", "!", "-", "-", " ", "r", "e", "a", "c", "t", "-", "e", "m", "p", "t", "y",
    " ", "-", "-", ">">>
REACT_TEXT ==
  <<"<", "!", "-", "-", " ", "r", "e", "a", "c", "t", "-", "t", "e", "x", "t",
    " ", "-", "-", ">">>
REACT_TEXT_END ==
  <<"<", "!", "-", "-", " ", "/", "r", "e", "a", "c", "t", "-", "t", "e", "x", "t",
    " ", "-", "-", ">">>
DATA_REACTROOT ==
  <<" ", "d", "a", "t", "a", "-", "r", "e", "a", "c", "t", "r", "o", "o", "t",
    "=", "\"", "\"">>
SELECTED == <<" ", "s", "e", "l", "e", "c", "t", "e", "d">>

\* DOMPropertyOperations.createMarkupForProperty for a string-valued attribute
createMarkupForProperty(name, value) ==
  name \o <<"=", "\"">> \o escapeTextContentForBrowser(toStr(value)) \o <<"\"">>

\* the properties of the model's elements that are rendered as attributes,
\* in the order the elements list them
AttributeNames == <<"id", "value", "defaultValue">>

attributeName(name) ==
  CASE name = "id" -> <<"i", "d">>
    [] name = "value" -> <<"v", "a", "l", "u", "e">>
    [] name = "defaultValue" -> <<"v", "a", "l", "u", "e">>

RECURSIVE attributesLoop(_, _, _)
attributesLoop(props, tagName, i) ==
  IF i > Len(AttributeNames) THEN <<>>
  ELSE LET name == AttributeNames[i]
           skip == \/ ~hasOwnProperty(props, name)
                   \/ tagName \in {TEXTAREA, SELECT} /\ name \in {"value", "defaultValue"}
       IN (IF skip THEN <<>>
           ELSE <<" ">> \o createMarkupForProperty(attributeName(name), props[name]))
          \o attributesLoop(props, tagName, i + 1)

propsToAttributes(props, tagName, selectValues) ==
  (IF /\ tagName = OPTION
      /\ Truthy(selectValues)
      /\ Truthy(Get(props, "value"))
      /\ \E i \in 1..Len(selectValues.items) :
            StrictEq(selectValues.items[i], Get(props, "value"))
   THEN SELECTED ELSE <<>>)
  \o attributesLoop(props, tagName, 1)

getSelectValues(tag, props) ==
  IF tag = SELECT /\ (hasOwnProperty(props, "value") \/ hasOwnProperty(props, "defaultValue"))
  THEN LET r == IF Truthy(Get(props, "value")) THEN Get(props, "value")
                ELSE Get(props, "defaultValue")
       IN  IF r.k = "arr" THEN r ELSE Arr(<<r>>)
  ELSE Null

-----------------------------------------------------------------------------
(* Tree nodes.                                                             *)

\* {element, root} of render() and {element, context} of addChildrenToArray
Node(el, hasContext, context, root) ==
  [k |-> "node", element |-> el, hasContext |-> hasContext, context |-> context,
   root |-> root,
   hasChildIndex |-> FALSE, childIndex |-> 0,
   childrenState |-> "absent", children |-> <<>>,
   filter |-> "absent", childTextProcessed |-> FALSE]

\* lines 230-244 with only false dropped: a null child becomes a node
RECURSIVE addChildrenKeepNull(_, _, _)
addChildrenKeepNull(children, resultArray, context) ==
  IF children = <<>> THEN resultArray
  ELSE addChildrenKeepNull(Tail(children),
         IF Head(children).k = "arr"
         THEN addChildrenKeepNull(Head(children).items, resultArray, context)
         ELSE IF Head(children).k = "false" THEN resultArray
         ELSE IF Head(children).k \in {"elem", "obj", "null"}
              THEN Append(resultArray, Node(Head(children), TRUE, context, FALSE))
         ELSE Append(resultArray, Head(children)),
         context)

\* lines 230-244 with a nested array pushed whole instead of flattened
RECURSIVE addChildrenNoFlatten(_, _, _)
addChildrenNoFlatten(children, resultArray, context) ==
  IF children = <<>> THEN resultArray
  ELSE addChildrenNoFlatten(Tail(children),
         IF Head(children).k \in {"null", "false"} THEN resultArray
         ELSE IF Head(children).k \in {"elem", "obj", "arr"}
              THEN Append(resultArray, Node(Head(children), TRUE, context, FALSE))
         ELSE Append(resultArray, Head(children)),
         context)

RECURSIVE addChildrenToArray(_, _, _)
addChildrenToArray(children, resultArray, context) ==
  IF children = <<>> THEN resultArray
  ELSE LET child == Head(children)
           pushed ==
             IF child.k = "arr" THEN addChildrenToArray(child.items, resultArray, context)
             ELSE IF child.k \in {"null", "false"} THEN resultArray
             ELSE IF child.k \in {"elem", "obj"}
                  THEN Append(resultArray, Node(child, TRUE, context, FALSE))
             ELSE Append(resultArray, child)
       IN  addChildrenToArray(Tail(children), pushed, context)

\* tree.filter(text): the filtered value and the node, whose closure variable
\* childTextProcessed the newline-eating filter may have set
applyFilter(t, v) ==
  IF t.filter = "identity" THEN [threw |-> "none", v |-> v, tree |-> t]
  ELSE IF v.k \notin {"str", "num"}
       THEN [threw |-> "TypeError", v |-> v, tree |-> t]   \* undefined.length
  ELSE IF t.childTextProcessed \/ (v.k = "str" /\ Len(v.s) = 0)
       THEN [threw |-> "none", v |-> v, tree |-> t]
  ELSE IF v.k = "num"                                       \* no charAt on a number
       THEN [threw |-> "TypeError", v |-> v, tree |-> [t EXCEPT !.childTextProcessed = TRUE]]
  ELSE [threw |-> "none",
        v |-> IF v.s[1] = "\n" THEN Str(<<"\n">> \o v.s) ELSE v,
        tree |-> [t EXCEPT !.childTextProcessed = TRUE]]

-----------------------------------------------------------------------------
(* renderImpl.                                                             *)

Returned(t, done, text, w) ==
  [tree |-> t, done |-> done, text |-> text, threw |-> "none", w |-> w]

Threw(t, error, w) ==
  [tree |-> t, done |-> FALSE, text |-> <<>>, threw |-> error, w |-> w]

\* return {done: true, text: prefix + escapeTextContentForBrowser(tree.filter(v)) + suffix}
ReturnedEscaped(t, prefix, v, suffix, w) ==
  LET f == applyFilter(t, v)
  IN  IF f.threw # "none" THEN Threw(f.tree, f.threw, w)
      ELSE Returned(f.tree, TRUE,
                    prefix \o escapeTextContentForBrowser(toStr(f.v)) \o suffix, w)

\* line 167: return {done: true, text: prefix + tree.filter(html) + suffix}
ReturnedFiltered(t, prefix, v, suffix, w) ==
  LET f == applyFilter(t, v)
  IN  IF f.threw # "none" THEN Threw(f.tree, f.threw, w)
      ELSE Returned(f.tree, TRUE, prefix \o toStr(f.v) \o suffix, w)

RECURSIVE renderImpl(_, _, _, _, _, _)
RECURSIVE childLoop(_, _, _, _, _, _, _, _, _, _)

\* lines 206-210 with the index advanced past a child that is not done
childReturnedSkips(t, text, len, static, selectValues, tag, props, suffix, path, r, f) ==
  IF ~r.done
  THEN Returned([f.tree EXCEPT !.childIndex = @ + 1], FALSE, text \o f.v.s, r.w)
  ELSE childLoop([f.tree EXCEPT !.childIndex = @ + 1], text \o f.v.s, len, static,
                 selectValues, tag, props, suffix, path, r.w)

\* lines 206-210, f being tree.filter applied to the child's text
childReturned(t, text, len, static, selectValues, tag, props, suffix, path, r, f) ==
  IF ~r.done THEN Returned(f.tree, FALSE, text \o f.v.s, r.w)
  ELSE childLoop([f.tree EXCEPT !.childIndex = @ + 1], text \o f.v.s, len, static,
                 selectValues, tag, props, suffix, path, r.w)

\* lines 205-206, r being the result of renderImpl on the child
childRendered(t, text, len, static, selectValues, tag, props, suffix, path, r) ==
  IF r.threw # "none"
  THEN Threw([t EXCEPT !.children[t.childIndex + 1] = r.tree], r.threw, r.w)
  ELSE childReturned(t, text, len, static, selectValues, tag, props, suffix, path, r,
                     applyFilter([t EXCEPT !.children[t.childIndex + 1] = r.tree],
                                 Str(r.text)))

\* lines 196-198 with the text-boundary comments put in both modes
childTextMarked(static, child) ==
  REACT_TEXT \o escapeTextContentForBrowser(toStr(child)) \o REACT_TEXT_END

\* lines 196-198: the text of a string or number child
childText(static, child) ==
  IF static THEN escapeTextContentForBrowser(toStr(child))
  ELSE REACT_TEXT \o toStr(child) \o REACT_TEXT_END

\* lines 195-200 with the index advanced twice past a string or number child
textChildAdvancesTwice(t, text, len, static, selectValues, tag, props, suffix, path, w, f) ==
  childLoop([f.tree EXCEPT !.childIndex = @ + 2], text \o f.v.s, len, static,
            selectValues, tag, props, suffix, path, w)

\* lines 195-200 with a text child cut where the length is reached
textChildSplits(t, text, len, static, selectValues, tag, props, suffix, path, w, f) ==
  IF ~len.inf /\ Len(text) < len.n /\ Len(text \o f.v.s) > len.n
  THEN Returned(f.tree, FALSE, SubSeq(text \o f.v.s, 1, len.n), w)
  ELSE childLoop([f.tree EXCEPT !.childIndex = @ + 1], text \o f.v.s, len, static,
                 selectValues, tag, props, suffix, path, w)

\* lines 195-200: a string or number child
textChild(t, text, len, static, selectValues, tag, props, suffix, path, w, f) ==
  childLoop([f.tree EXCEPT !.childIndex = @ + 1], text \o f.v.s, len, static,
            selectValues, tag, props, suffix, path, w)

\* lines 188-214 without line 213: the list is kept when the position is done
childLoopKeepsList(t, text, len, static, selectValues, tag, props, suffix, path, w) ==
  IF t.childrenState = "null" THEN Threw(t, "TypeError", w)
  ELSE IF ~(t.childIndex < Len(t.children))
  THEN Returned(t, TRUE, text \o suffix, w)
  ELSE IF ReachedLength(text, len) THEN Returned(t, FALSE, text, w)
  ELSE IF t.children[t.childIndex + 1].k \in {"str", "num"}
  THEN textChild(t, text, len, static, selectValues, tag, props, suffix, path, w,
         applyFilter(t, Str(childText(static, t.children[t.childIndex + 1]))))
  ELSE IF ~Truthy(selectValues)
  THEN childRendered(t, text, len, static, getSelectValues(tag, props), tag, props,
                     suffix, path,
                     renderImpl(t.children[t.childIndex + 1], RemainingLength(len, text),
                                static, getSelectValues(tag, props),
                                Append(path, t.childIndex), w))
  ELSE childRendered(t, text, len, static, selectValues, tag, props, suffix, path,
                     renderImpl(t.children[t.childIndex + 1], RemainingLength(len, text),
                                static, selectValues, Append(path, t.childIndex), w))

\* lines 188-214: the for loop over tree.children and the final return; a
\* position whose list line 213 has set to null has no tree.children.length
childLoop(t, text, len, static, selectValues, tag, props, suffix, path, w) ==
  IF t.childrenState = "null" THEN Threw(t, "TypeError", w)
  ELSE IF ~(t.childIndex < Len(t.children))
  THEN Returned([t EXCEPT !.childrenState = "null", !.children = <<>>],
                TRUE, text \o suffix, w)
  ELSE IF ReachedLength(text, len) THEN Returned(t, FALSE, text, w)
  ELSE IF t.children[t.childIndex + 1].k \in {"str", "num"}
  THEN textChild(t, text, len, static, selectValues, tag, props, suffix, path, w,
         applyFilter(t, Str(childText(static, t.children[t.childIndex + 1]))))
  ELSE IF ~Truthy(selectValues)
  THEN childRendered(t, text, len, static, getSelectValues(tag, props), tag, props,
                     suffix, path,
                     renderImpl(t.children[t.childIndex + 1], RemainingLength(len, text),
                                static, getSelectValues(tag, props),
                                Append(path, t.childIndex), w))
  ELSE childRendered(t, text, len, static, selectValues, tag, props, suffix, path,
                     renderImpl(t.children[t.childIndex + 1], RemainingLength(len, text),
                                static, selectValues, Append(path, t.childIndex), w))

\* line 183: props.children.length ? props.children : [props.children]
elementChildren(children) ==
  IF children.k = "arr" /\ Len(children.items) # 0 THEN children.items ELSE <<children>>

\* lines 180-186 with the children array made again on every visit
withChildrenAgain(t, props) ==
  [t EXCEPT !.hasChildIndex = TRUE,
            !.childrenState = "array",
            !.children = addChildrenToArray(elementChildren(props.children), <<>>,
                                            t.context)]

\* lines 180-186: the children array, made on the first visit
withChildren(t, props) ==
  IF t.hasChildIndex THEN t
  ELSE [t EXCEPT !.hasChildIndex = TRUE,
                 !.childrenState = "array",
                 !.children = addChildrenToArray(elementChildren(props.children), <<>>,
                                                 t.context)]

\* lines 142-158 with the filter, and its childTextProcessed, made on every call
withFilterAgain(t, tag) ==
  [t EXCEPT !.filter = IF tag \in newlineEatingTags THEN "newline" ELSE "identity",
            !.childTextProcessed = FALSE]

\* lines 142-158
withFilter(t, tag) ==
  IF t.filter # "absent" THEN t
  ELSE [t EXCEPT !.filter = IF tag \in newlineEatingTags THEN "newline" ELSE "identity"]

\* lines 160-186, t being the node with its filter
renderContent(t, len, static, selectValues, path, w, tag, props, prefix, suffix) ==
  IF tag = TEXTAREA
     /\ (hasOwnProperty(props, "value") \/ hasOwnProperty(props, "defaultValue"))
  THEN ReturnedEscaped(t, prefix,
                       IF hasOwnProperty(props, "value") THEN props.value
                       ELSE props.defaultValue,
                       suffix, w)
  ELSE IF Truthy(Get(props, "dangerouslySetInnerHTML"))
          /\ Truthy(props.dangerouslySetInnerHTML.__html)
  THEN ReturnedFiltered(t, prefix, props.dangerouslySetInnerHTML.__html, suffix, w)
  ELSE IF ~Truthy(Get(props, "children")) THEN Returned(t, TRUE, prefix \o suffix, w)
  ELSE IF props.children.k \in {"str", "num"}
  THEN ReturnedEscaped(t, prefix, props.children, suffix, w)
  ELSE childLoop(withChildren(t, props), IF t.hasChildIndex THEN <<>> ELSE prefix,
                 len, static, selectValues, tag, props, suffix, path, w)

\* line 129 with the root marker on every node
attributesEveryNode(t, props, tag, selectValues) ==
  DATA_REACTROOT \o propsToAttributes(props, tag, selectValues)

\* line 129
attributes(t, props, tag, selectValues) ==
  (IF t.root THEN DATA_REACTROOT ELSE <<>>) \o propsToAttributes(props, tag, selectValues)

\* lines 128-140 without the voidTags return
renderTagNoVoid(t, len, static, selectValues, path, w, tag, props) ==
  renderContent(withFilter(t, tag), len, static, selectValues, path, w, tag, props,
                <<"<">> \o tag \o attributes(t, props, tag, selectValues) \o <<">">>,
                <<"<", "/">> \o tag \o <<">">>)

\* lines 128-140.  The props of an element are always an object, so the
\* !props return of line 138 is never taken.
renderTag(t, len, static, selectValues, path, w, tag, props) ==
  IF tag \in voidTags
     /\ (\/ StrictEq(Get(props, "children"), Str(<<>>))
         \/ Get(props, "children").k \in {"null", "undef"})
  THEN Returned(t, TRUE,
                <<"<">> \o tag \o attributes(t, props, tag, selectValues) \o <<"/", ">">>, w)
  ELSE renderContent(withFilter(t, tag), len, static, selectValues, path, w, tag, props,
                     <<"<">> \o tag \o attributes(t, props, tag, selectValues) \o <<">">>,
                     <<"<", "/">> \o tag \o <<">">>)

\* lines 106-127 without the assignment tree.element = element of a DOM element
resolvedKeepsElement(t, len, static, selectValues, path, nc) ==
  IF nc.threw # "none" THEN Threw(t, nc.threw, nc.w)
  ELSE IF nc.element.k = "false"
  THEN Returned([t EXCEPT !.context = nc.context, !.hasContext = TRUE], TRUE, <<>>, nc.w)
  ELSE IF nc.element.k = "null"
  THEN Returned([t EXCEPT !.context = nc.context, !.hasContext = TRUE],
                TRUE, IF static THEN <<>> ELSE REACT_EMPTY, nc.w)
  ELSE IF nc.element.k = "undef"
  THEN Threw([t EXCEPT !.context = nc.context, !.hasContext = TRUE],
             "ResolvedToUndefined", nc.w)
  ELSE IF typeofType(nc.element) # "string"
  THEN Threw([t EXCEPT !.context = nc.context, !.hasContext = TRUE], "NotATagName", nc.w)
  ELSE renderTag([t EXCEPT !.context = nc.context, !.hasContext = TRUE],
                 len, static, selectValues, path, nc.w,
                 toLowerCase(nc.element.type.name), nc.element.props)

\* lines 106-127 with an undefined element taken for a null one
resolvedUndefinedAsNull(t, len, static, selectValues, path, nc) ==
  IF nc.threw # "none" THEN Threw(t, nc.threw, nc.w)
  ELSE IF nc.element.k = "false"
  THEN Returned([t EXCEPT !.element = nc.element, !.context = nc.context,
                          !.hasContext = TRUE], TRUE, <<>>, nc.w)
  ELSE IF nc.element.k \in {"null", "undef"}
  THEN Returned([t EXCEPT !.element = nc.element, !.context = nc.context,
                          !.hasContext = TRUE],
                TRUE, IF static THEN <<>> ELSE REACT_EMPTY, nc.w)
  ELSE IF typeofType(nc.element) # "string"
  THEN Threw([t EXCEPT !.element = nc.element, !.context = nc.context,
                       !.hasContext = TRUE], "NotATagName", nc.w)
  ELSE renderTag([t EXCEPT !.element = nc.element, !.context = nc.context,
                           !.hasContext = TRUE],
                 len, static, selectValues, path, nc.w,
                 toLowerCase(nc.element.type.name), nc.element.props)

\* lines 106-127, nc being the result of getNativeComponent
resolved(t, len, static, selectValues, path, nc) ==
  IF nc.threw # "none" THEN Threw(t, nc.threw, nc.w)
  ELSE IF nc.element.k = "false"
  THEN Returned([t EXCEPT !.element = nc.element, !.context = nc.context,
                          !.hasContext = TRUE], TRUE, <<>>, nc.w)
  ELSE IF nc.element.k = "null"
  THEN Returned([t EXCEPT !.element = nc.element, !.context = nc.context,
                          !.hasContext = TRUE],
                TRUE, IF static THEN <<>> ELSE REACT_EMPTY, nc.w)
  ELSE IF nc.element.k = "undef"
  THEN Threw([t EXCEPT !.element = nc.element, !.context = nc.context,
                       !.hasContext = TRUE], "ResolvedToUndefined", nc.w)
  ELSE IF typeofType(nc.element) # "string"
  THEN Threw([t EXCEPT !.element = nc.element, !.context = nc.context,
                       !.hasContext = TRUE], "NotATagName", nc.w)
  ELSE renderTag([t EXCEPT !.element = nc.element, !.context = nc.context,
                           !.hasContext = TRUE],
                 len, static, selectValues, path, nc.w,
                 toLowerCase(nc.element.type.name), nc.element.props)

\* lines 101-215 with a false element given the placeholder of a null one
renderImplFalseAsNull(t, len, static, selectValues, path, w) ==
  IF t.k # "node" THEN Threw(t, "TypeError", w)
  ELSE IF getNativeComponent(t.element, IF t.hasContext THEN t.context ELSE EMPTY_OBJECT,
                             path, w).element.k = "false"
  THEN resolved(t, len, static, selectValues, path,
                Resolved(Null, IF t.hasContext THEN t.context ELSE EMPTY_OBJECT,
                         getNativeComponent(t.element,
                                            IF t.hasContext THEN t.context ELSE EMPTY_OBJECT,
                                            path, w).w))
  ELSE resolved(t, len, static, selectValues, path,
                getNativeComponent(t.element,
                                   IF t.hasContext THEN t.context ELSE EMPTY_OBJECT,
                                   path, w))

\* lines 101-215
renderImpl(t, len, static, selectValues, path, w) ==
  IF t.k # "node" THEN Threw(t, "TypeError", w)   \* tree.element of undefined
  ELSE resolved(t, len, static, selectValues, path,
                getNativeComponent(t.element,
                                   IF t.hasContext THEN t.context ELSE EMPTY_OBJECT,
                                   path, w))

-----------------------------------------------------------------------------
(* The elements the model renders.                                         *)

\* what a children array is made of
Pool ==
  << Str(<<>>),
     Elem(Comp("NullComponent"), EMPTY_OBJECT),
     Str(<<"\n", "b">>),
     Elem(Tag(SPAN), [children |-> Arr(<<Str(<<"c">>), Str(<<"<">>)>>)]),
     Null,
     Str(<<"a">>),
     False,
     Elem(Tag(<<"I", "M", "G">>), [id |-> Str(<<"i">>)]),
     Arr(<<Null, Str(<<"&">>), Arr(<<False, Elem(Tag(<<"b", "r">>), EMPTY_OBJECT)>>)>>),
     Elem(Comp("Foo"), EMPTY_OBJECT) >>

\* the n values of Pool that follow its i-th, going round
Window(i, n) == [j \in 1..n |-> Pool[((i + j - 2) % Len(Pool)) + 1]]

\* props.children: absent, one value, or an array of at most MaxWidth values
ChildrenProps ==
  {EMPTY_OBJECT, [children |-> Arr(<<>>)]}
  \cup {[children |-> Pool[i]] : i \in 1..Len(Pool)}
  \cup {[children |-> Arr(Window(i, n))] : i \in 1..Len(Pool), n \in 1..MaxWidth}

RootTags == {DIV, PRE}

RECURSIVE Nest(_, _)
Nest(el, d) ==
  IF d = 0 THEN el ELSE Elem(Comp("Wrapper"), [children |-> Nest(el, d - 1)])

Generated ==
  {Nest(Elem(Tag(tag), props), d) : tag \in RootTags, props \in ChildrenProps, d \in 0..MaxDepth}

\* the tree of the test 'can render context'
ContextTree ==
  Elem(Comp("Parent"),
       [children |->
          Elem(Tag(DIV),
               [children |->
                  Arr(<<Elem(Comp("ClassChildWithContext"), EMPTY_OBJECT),
                        Elem(Comp("StatelessChildWithContext"), EMPTY_OBJECT),
                        Elem(Comp("ClassChildWithWrongContext"), EMPTY_OBJECT),
                        Elem(Comp("ClassChildWithoutContext"), EMPTY_OBJECT),
                        Elem(Comp("StatelessChildWithoutContext"), EMPTY_OBJECT)>>)])])

\* a nearer provider, a pass-through, a sibling and a provider that consumes
ContextOverrideTree(c) ==
  Elem(Tag(DIV),
       [children |->
          Arr(<<Elem(Comp("RedChild"),
                     [children |-> Elem(Comp("Passthrough"), [children |-> Elem(Comp(c), EMPTY_OBJECT)])]),
                Elem(Comp("StatelessChildWithContext"), EMPTY_OBJECT),
                Elem(Comp("SelfProvider"), EMPTY_OBJECT)>>)])

\* the tree of the test 'should run componentWillMount before getChildContext'
StateContextTree ==
  Elem(Comp("StateParent"), [children |-> Elem(Comp("StatelessChildWithContext"), EMPTY_OBJECT)])

\* <option value=v>x</option>
Option(v) == Elem(Tag(OPTION), [value |-> v, children |-> Str(<<"x">>)])

\* selects with their options, as in the tests 'should reconnect a select ...',
\* and with an empty value, a group of options and an option outside
SelectTrees ==
  { Elem(Tag(SELECT), [defaultValue |-> Str(<<"A">>),
                       children |-> Arr(<<Option(Str(<<"A">>)), Option(Str(<<"B">>))>>)]),
    Elem(Tag(SELECT), [defaultValue |-> Arr(<<Str(<<"A">>), Str(<<"C">>)>>),
                       children |-> Arr(<<Option(Str(<<"A">>)), Option(Str(<<"B">>)),
                                          Option(Str(<<"C">>))>>)]),
    Elem(Tag(DIV), [children |->
      Arr(<<Elem(Tag(SELECT), [children |-> Arr(<<Option(Str(<<"A">>))>>)]),
            Elem(Tag(SELECT), [value |-> Str(<<"A">>),
                               children |-> Arr(<<Option(Str(<<"A">>))>>)]),
            Option(Str(<<"A">>))>>)]),
    Elem(Tag(SELECT), [value |-> Str(<<"B">>),
                       children |->
                         Arr(<<Elem(Tag(SPAN), [children |->
                                 Arr(<<Option(Str(<<"A">>)), Option(Str(<<"B">>))>>)])>>)]),
    Elem(Tag(SELECT), [value |-> Str(<<>>),
                       children |-> Arr(<<Option(Str(<<>>)), Option(Str(<<"B">>))>>)]),
    Elem(Tag(SELECT), [value |-> Str(<<>>), defaultValue |-> Str(<<"B">>),
                       children |-> Arr(<<Option(Str(<<"B">>))>>)]) }

Fixtures ==
  { ContextTree,
    ContextOverrideTree("StatelessChildWithContext"),
    Elem(Comp("Parent"), [children |-> ContextOverrideTree("BothChild")]),
    StateContextTree,
    Elem(Comp("WillMountTwice"), EMPTY_OBJECT),
    Elem(Comp("TestComponent"), EMPTY_OBJECT),
    Elem(Comp("FactoryFoo"), EMPTY_OBJECT),
    Elem(Comp("FactoryProvider"),
         [children |-> Elem(Comp("StatelessChildWithContext"), EMPTY_OBJECT)]),
    Elem(Comp("UndefinedClass"), EMPTY_OBJECT),
    Elem(Object, EMPTY_OBJECT),
    Elem(True, EMPTY_OBJECT),
    Elem(False, EMPTY_OBJECT),
    Elem(Num(5), EMPTY_OBJECT),
    Elem(Undefined, EMPTY_OBJECT),
    Elem(Null, EMPTY_OBJECT),
    Elem(Tag(DIV), [children |-> Arr(<<Str(<<"a">>), Elem(Object, [children |-> Str(<<"b">>)])>>)]),
    Elem(Comp("Passthrough"), EMPTY_OBJECT),
    Elem(Comp("Passthrough"), [children |-> Elem(Comp("UndefinedComponent"), EMPTY_OBJECT)]),
    Nest(Elem(Tag(DIV), [children |-> Elem(Comp("Passthrough"),
                                            [children |-> Elem(Comp("UndefinedClass"), EMPTY_OBJECT)])]), 1),
    Elem(Comp("NoChildContextTypes"), EMPTY_OBJECT),
    Elem(Tag(DIV), [children |-> Arr(<<Str(<<"a">>), Elem(Comp("UndeclaredKey"), EMPTY_OBJECT)>>)]),
    Elem(Comp("NullComponent"), EMPTY_OBJECT),
    Elem(Comp("FalseComponent"), EMPTY_OBJECT),
    Elem(Comp("UndefinedComponent"), EMPTY_OBJECT),
    Elem(Comp("WillMount"), EMPTY_OBJECT),
    Elem(Tag(DIV), [children |-> Arr(<<Elem(Comp("SetStateInRender"), EMPTY_OBJECT),
                                       Elem(Comp("WillMount"), EMPTY_OBJECT)>>)]),
    Elem(Comp("Passthrough"), [children |-> Elem(Comp("FalseComponent"), EMPTY_OBJECT)]),
    Elem(Tag(IMG), EMPTY_OBJECT),
    Elem(Tag(IMG), [children |-> Str(<<>>)]),
    Elem(Tag(IMG), [children |-> Null]),
    Elem(Tag(IMG), [children |-> Str(<<"a">>)]),
    Elem(Tag(TEXTAREA), [value |-> Str(<<"\n", "v">>)]),
    Elem(Tag(TEXTAREA), [defaultValue |-> Str(<<"v">>)]),
    Elem(Tag(PRE), [dangerouslySetInnerHTML |-> [k |-> "obj", __html |-> Str(<<"\n", "<", "b", ">">>)]]),
    Elem(Tag(DIV), [children |-> Arr(<<Str(<<"a">>), Elem(Comp("UndefinedComponent"), EMPTY_OBJECT)>>)]),
    Elem(Tag(PRE), [children |-> Arr(<<Str(<<"\n", "b">>), Str(<<"\n", "b">>)>>)]),
    Elem(Tag(PRE), [children |-> Arr(<<Str(<<"a">>), Str(<<"\n", "b">>)>>)]),
    Elem(Tag(DIV), [children |-> Arr(<<Str(<<"&">>), Num(42), Str(<<"<", "'">>)>>)]),
    Elem(Tag(DIV), [children |-> Num(42)]),
    Elem(Tag(DIV), [children |-> Arr(<<Num(42), Elem(Comp("FalseComponent"), EMPTY_OBJECT)>>)]) }

Elements == Generated \cup Fixtures \cup SelectTrees

Lengths == {Finite(n * n * n) : n \in 1..MaxLength} \cup {Infinity}

-----------------------------------------------------------------------------
(* render and the generator it returns.                                    *)

NoResult == [done |-> FALSE, text |-> <<>>]

\* the entry points and the stream are not used by render and its generator
NoServer == [strategy |-> "none"]
NoStream == [buffer |-> <<>>]
NoAdler == [done |-> FALSE]
NoCallback == [buffer |-> <<>>]
NoLazy == [calls |-> 0]
NoBuffered == [calls |-> 0]

sinks == <<adler, callback, lazy, buffered>>

\* no stream is piped, no res is written to and no lazy tree is run
NoSinks ==
  adler = NoAdler /\ callback = NoCallback /\ lazy = NoLazy /\ buffered = NoBuffered

\* render, lines 93-96: the root node, before the first renderImpl call
Init ==
  /\ element \in Elements
  /\ makeStaticMarkup \in BOOLEAN
  /\ tree = Node(element, FALSE, EMPTY_OBJECT, ~makeStaticMarkup)
  /\ result = NoResult
  /\ length = Infinity
  /\ out = <<>>
  /\ uniform = TRUE
  /\ world = [log |-> <<>>, queue |-> <<>>]
  /\ phase = "start"
  /\ server = NoServer
  /\ stream = NoStream
  /\ NoSinks

\* renderResultToGenerator(result, tree, makeStaticMarkup), r being the result
\* of renderImpl; a throw leaves the caller without a new generator
Generator(len, r) ==
  /\ tree' = r.tree
  /\ world' = r.w
  /\ length' = len
  /\ IF r.threw # "none"
     THEN /\ phase' = r.threw
          /\ UNCHANGED <<result, out>>
     ELSE /\ phase' = IF r.done THEN "done" ELSE "paused"
          /\ result' = [done |-> r.done, text |-> r.text]
          /\ out' = out \o r.text
  /\ UNCHANGED <<element, makeStaticMarkup, server, stream, sinks>>

Step(len) ==
  Generator(len, renderImpl(tree, len, makeStaticMarkup, Undefined, <<>>, world))

\* render(element, length, makeStaticMarkup), line 97
Render(len) ==
  /\ phase = "start"
  /\ Step(len)
  /\ uniform' = TRUE

\* next(length) on a result that is not done
NextChunk(len) ==
  /\ phase = "paused"
  /\ ~result.done
  /\ Step(len)
  /\ uniform' = (uniform /\ len = length)

\* next(length) on a result that is done: returns null
NextNull ==
  /\ phase = "done"
  /\ result.done
  /\ phase' = "ended"
  /\ UNCHANGED <<element, makeStaticMarkup, tree, result, length, out, uniform, world,
                 server, stream, sinks>>

Next ==
  \/ \E len \in Lengths : Render(len)
  \/ \E len \in Lengths : NextChunk(len)
  \/ NextNull

Spec == Init /\ [][Next]_vars


-----------------------------------------------------------------------------
(* The top-level entry points of ReactServerRendering and                  *)
(* ReactServerAsyncRendering, over the modules they share: the batching    *)
(* strategy injected into ReactUpdates, the transaction pool, the          *)
(* component instances made, the data written to res, the streams handed   *)
(* out and not yet ended.                                                  *)

ReactDefaultBatchingStrategy == "ReactDefaultBatchingStrategy"
ReactServerBatchingStrategy == "ReactServerBatchingStrategy"

\* ReactElement.isValidElement
isValidElement(v) == v.k = "elem"

\* invariant(false, message)
InvariantViolation(s) == [s EXCEPT !.thrown = "Invariant Violation"]

\* ReactUpdates.injection.injectBatchingStrategy
injectBatchingStrategy(s, strategy) == [s EXCEPT !.strategy = strategy]

\* ReactServerRenderingTransaction.getPooled and release
getPooled(s) == [s EXCEPT !.pooled = @ + 1]
release(s) == [s EXCEPT !.pooled = @ - 1]

instantiateReactComponent(s) == [s EXCEPT !.instances = @ + 1]

\* the markup of a mounted element
Markup(el, static) == [k |-> "markup", element |-> el, static |-> static]

\* an element whose mounting throws, and one whose markup throws when it is
\* produced inside a pull
MountThrows(el) == el.type = Comp("ThrowsInRender")
PullThrows(el) == el.type = Comp("ThrowsInProducer")

\* a RenderStream handed to the caller, with what its 'end' listener does and
\* the batching strategy that was injected when a _read last mounted components
RenderStream(file, el, syncBatching) ==
  [file |-> file, element |-> el, syncBatching |-> syncBatching, pulled |-> FALSE,
   failed |-> FALSE, mountedUnder |-> "none"]

\* ReactServerRendering.js lines 32-58: mountComponent or runToFinish may throw,
\* and the finally block runs either way
renderToStringImpl(s, el, static) ==
  injectBatchingStrategy(
    release(IF MountThrows(el) \/ PullThrows(el)
            THEN [instantiateReactComponent(
                    getPooled(injectBatchingStrategy(s, ReactServerBatchingStrategy)))
                    EXCEPT !.thrown = "Error"]
            ELSE [instantiateReactComponent(
                    getPooled(injectBatchingStrategy(s, ReactServerBatchingStrategy)))
                    EXCEPT !.returned = Markup(el, static)]),
    ReactDefaultBatchingStrategy)

\* ReactServerRendering.js lines 80-108: the catch block releases the
\* transaction and throws again
renderToStreamImpl(s, el, static) ==
  IF MountThrows(el)
  THEN [release(instantiateReactComponent(
                  getPooled(injectBatchingStrategy(s, ReactServerBatchingStrategy))))
          EXCEPT !.thrown = "Error"]
  ELSE [injectBatchingStrategy(
          instantiateReactComponent(
            getPooled(injectBatchingStrategy(s, ReactServerBatchingStrategy))),
          ReactDefaultBatchingStrategy)
          EXCEPT !.open = Append(@, RenderStream("ReactServerRendering", el, FALSE)),
                 !.returned = [k |-> "stream"]]

\* ReactServerRendering.js lines 111-117
renderToString(s, el) ==
  IF ~isValidElement(el) THEN InvariantViolation(s) ELSE renderToStringImpl(s, el, FALSE)

\* ReactServerRendering.js lines 119-125
renderToStaticMarkup(s, el) ==
  IF ~isValidElement(el) THEN InvariantViolation(s) ELSE renderToStringImpl(s, el, TRUE)

\* ReactServerRendering.js lines 127-133
renderToStream(s, el) ==
  IF ~isValidElement(el) THEN InvariantViolation(s) ELSE renderToStreamImpl(s, el, FALSE)

\* ReactServerRendering.js lines 135-141
renderToStaticMarkupStream(s, el) ==
  IF ~isValidElement(el) THEN InvariantViolation(s) ELSE renderToStreamImpl(s, el, TRUE)

\* ReactServerAsyncRendering.js lines 139-165 and 205-229: the deprecated API
\* that writes to res; the markup of the model's elements stays below 16 * 1024
writeToRes(s, el, static) ==
  IF MountThrows(el) \/ PullThrows(el)
  THEN [instantiateReactComponent(s) EXCEPT !.returned = [k |-> "rejected"]]
  ELSE [release(instantiateReactComponent(s))
          EXCEPT !.written = Append(@, Markup(el, static)),
                 !.returned = [k |-> "promise"]]

\* ReactServerAsyncRendering.js lines 166-182 and 230-241
returnStream(s, el, syncBatching) ==
  [instantiateReactComponent(s)
     EXCEPT !.open = Append(@, RenderStream("ReactServerAsyncRendering", el, syncBatching)),
            !.returned = [k |-> "stream"]]

\* ReactServerAsyncRendering.js lines 124-183 with the strategy injected first
renderToStringStreamUnchecked(s, el, res, syncBatching) ==
  IF ~isValidElement(el)
  THEN InvariantViolation(injectBatchingStrategy(s, ReactServerBatchingStrategy))
  ELSE IF res
  THEN writeToRes(getPooled(injectBatchingStrategy(s, ReactServerBatchingStrategy)), el, FALSE)
  ELSE returnStream(getPooled(injectBatchingStrategy(s, ReactServerBatchingStrategy)),
                    el, syncBatching)

\* ReactServerAsyncRendering.js lines 124-183
renderToStringStream(s, el, res, syncBatching) ==
  IF ~isValidElement(el) THEN InvariantViolation(s)
  ELSE IF res
  THEN writeToRes(getPooled(injectBatchingStrategy(s, ReactServerBatchingStrategy)), el, FALSE)
  ELSE returnStream(getPooled(injectBatchingStrategy(s, ReactServerBatchingStrategy)),
                    el, syncBatching)

\* ReactServerAsyncRendering.js lines 190-242
renderToStaticMarkupStreamAsync(s, el, res) ==
  IF ~isValidElement(el) THEN InvariantViolation(s)
  ELSE IF res
  THEN writeToRes(getPooled(injectBatchingStrategy(s, ReactServerBatchingStrategy)), el, TRUE)
  ELSE returnStream(getPooled(injectBatchingStrategy(s, ReactServerBatchingStrategy)), el,
                    FALSE)

EntryPoints ==
  {"renderToString", "renderToStaticMarkup", "renderToStream", "renderToStaticMarkupStream",
   "renderToStringStream", "renderToStaticMarkupStreamAsync"}

\* what callers pass: elements, and the silly arguments of the tests
Arguments ==
  { Elem(Tag(DIV), EMPTY_OBJECT), Elem(Comp("Foo"), EMPTY_OBJECT),
    Elem(Comp("ThrowsInRender"), EMPTY_OBJECT), Elem(Comp("ThrowsInProducer"), EMPTY_OBJECT),
    Str(<<"n", "o", "t">>), Null, Undefined, Num(5), Object }

Enter(s, entry, el, res, syncBatching) ==
  CASE entry = "renderToString" -> renderToString(s, el)
    [] entry = "renderToStaticMarkup" -> renderToStaticMarkup(s, el)
    [] entry = "renderToStream" -> renderToStream(s, el)
    [] entry = "renderToStaticMarkupStream" -> renderToStaticMarkupStream(s, el)
    [] entry = "renderToStringStream" -> renderToStringStream(s, el, res, syncBatching)
    [] entry = "renderToStaticMarkupStreamAsync" -> renderToStaticMarkupStreamAsync(s, el, res)

\* no renderer session runs while the entry points are exercised
NoSession ==
  /\ element = Null
  /\ makeStaticMarkup = FALSE
  /\ tree = Null
  /\ result = NoResult
  /\ length = Infinity
  /\ out = <<>>
  /\ uniform = TRUE
  /\ world = [log |-> <<>>, queue |-> <<>>]
  /\ phase = "none"

session == <<element, makeStaticMarkup, tree, result, length, out, uniform, world, phase>>

ServerInit ==
  /\ NoSession
  /\ stream = NoStream
  /\ NoSinks
  /\ server = [strategy |-> ReactDefaultBatchingStrategy, pooled |-> 0, instances |-> 0,
               written |-> <<>>, open |-> <<>>, returned |-> Undefined,
               thrown |-> "none", calls |-> 0, entry |-> "none", argument |-> Undefined]

\* one call of an entry point; calls, entry and argument record the call made
Call(entry, el, res, syncBatching) ==
  /\ server.calls < MaxCalls
  /\ server' = Enter([server EXCEPT !.calls = @ + 1, !.entry = entry, !.argument = el,
                                    !.returned = Undefined, !.thrown = "none"],
                     entry, el, res, syncBatching)
  /\ UNCHANGED <<session, stream, sinks>>

\* _read(n) of the i-th open stream: ReactServerRendering.js lines 67-73 inject
\* the server strategy, push what StringLazyTree.run returns and revert;
\* ReactServerAsyncRendering.js lines 70-117 leave the strategy alone.  A throw
\* leaves _read at once
pull(s, i) ==
  LET st == s.open[i]
      throws == MountThrows(st.element) \/ PullThrows(st.element)
      pulled == [s EXCEPT !.open[i].pulled = TRUE, !.open[i].failed = throws,
                          !.open[i].mountedUnder =
                             IF st.file = "ReactServerRendering"
                             THEN ReactServerBatchingStrategy ELSE s.strategy]
  IN  IF st.file = "ReactServerRendering"
      THEN injectBatchingStrategy(pulled, IF throws THEN ReactServerBatchingStrategy
                                          ELSE ReactDefaultBatchingStrategy)
      ELSE pulled

\* the consumer pulls from the i-th open stream
Pull(i) ==
  /\ i \in 1..Len(server.open)
  /\ ~server.open[i].failed
  /\ server' = pull(server, i)
  /\ UNCHANGED <<session, stream, sinks>>

\* the 'end' listener of the i-th open stream, once it has been read to its end
StreamEnd(i) ==
  /\ i \in 1..Len(server.open)
  /\ server.open[i].pulled
  /\ ~server.open[i].failed
  /\ server' =
       [(IF server.open[i].syncBatching
         THEN injectBatchingStrategy(release(server), ReactDefaultBatchingStrategy)
         ELSE release(server))
          EXCEPT !.open = SubSeq(server.open, 1, i - 1)
                          \o SubSeq(server.open, i + 1, Len(server.open))]
  /\ UNCHANGED <<session, stream, sinks>>

ServerNext ==
  \/ \E entry \in EntryPoints, el \in Arguments, res \in BOOLEAN, syncBatching \in BOOLEAN :
       Call(entry, el, res, syncBatching)
  \/ \E i \in 1..MaxCalls : Pull(i)
  \/ \E i \in 1..MaxCalls : StreamEnd(i)

ServerSpec == ServerInit /\ [][ServerNext]_vars


-----------------------------------------------------------------------------
(* RenderStream of ReactServerAsyncRendering.js, lines 58-118.  The stream *)
(* record holds the fields of the object (buffer, done, continuation,      *)
(* maxStackDepth), the n its callbacks closed over, what the rendering     *)
(* chain has still to deliver (rest) and has delivered (emitted), what was *)
(* pushed downstream, and whether a _read awaits its push (reading) or a   *)
(* continuation waits for the next tick (pending).                         *)

\* this.push(chunk)
push(st, chunk) == [st EXCEPT !.pushed = Append(@, chunk), !.reading = FALSE]

\* lines 107-111 without the push of the rest of the buffer
doneCallbackDrops(st) == push([st EXCEPT !.done = TRUE], Str(<<>>))

\* lines 107-111: the rendering is finished
doneCallback(st) == push([st EXCEPT !.done = TRUE], Str(st.buffer))

RECURSIVE mountComponentAsync(_, _)

\* lines 88-106 without line 91: the continuation is not saved
textCallbackForgets(st, depth) ==
  IF Len(st.buffer) >= st.n
  THEN push([st EXCEPT !.buffer = SubSeq(st.buffer, st.n + 1, Len(st.buffer))],
            Str(SubSeq(st.buffer, 1, st.n)))
  ELSE IF depth >= st.maxStackDepth
  THEN [st EXCEPT !.pending = TRUE]
  ELSE mountComponentAsync(st, depth + 1)

\* lines 88-106 with the buffer pushed when the continuation is deferred
textCallbackPushesOnYield(st, depth) ==
  IF Len(st.buffer) >= st.n
  THEN push([st EXCEPT !.continuation = TRUE,
                       !.buffer = SubSeq(st.buffer, st.n + 1, Len(st.buffer))],
            Str(SubSeq(st.buffer, 1, st.n)))
  ELSE IF depth >= st.maxStackDepth
  THEN [push([st EXCEPT !.buffer = <<>>], Str(st.buffer)) EXCEPT !.pending = TRUE,
                                                                  !.reading = TRUE]
  ELSE mountComponentAsync(st, depth + 1)

\* lines 88-106, st.buffer already holding the text; depth is this.stackDepth
textCallback(st, depth) ==
  IF Len(st.buffer) >= st.n
  THEN push([st EXCEPT !.continuation = TRUE,
                       !.buffer = SubSeq(st.buffer, st.n + 1, Len(st.buffer))],
            Str(SubSeq(st.buffer, 1, st.n)))
  ELSE IF depth >= st.maxStackDepth
  THEN [st EXCEPT !.pending = TRUE]
  ELSE mountComponentAsync(st, depth + 1)

\* the rendering chain: each fragment goes to the text callback with a
\* continuation, and the done callback follows the last one
mountComponentAsync(st, depth) ==
  IF st.rest = <<>> THEN doneCallback(st)
  ELSE textCallback([st EXCEPT !.rest = Tail(@),
                               !.emitted = Append(@, Head(st.rest)),
                               !.buffer = @ \o Head(st.rest)],
                    depth)

\* lines 70-117
read(st, n) ==
  IF st.done THEN push(st, Null)
  ELSE IF Len(st.buffer) >= n
  THEN push([st EXCEPT !.buffer = SubSeq(st.buffer, n + 1, Len(st.buffer))],
            Str(SubSeq(st.buffer, 1, n)))
  ELSE IF ~st.continuation
  THEN mountComponentAsync([st EXCEPT !.n = n, !.starts = @ + 1], 0)
  ELSE mountComponentAsync(st, 0)

Letters == <<"a", "b", "c", "d", "e", "f", "g", "h">>

\* the ways of cutting text into fragments that are not empty
RECURSIVE Splits(_)
Splits(text) ==
  IF text = <<>> THEN {<<>>}
  ELSE UNION {{<<SubSeq(text, 1, i)>> \o r : r \in Splits(SubSeq(text, i + 1, Len(text)))} :
              i \in 1..Len(text)}

\* a text with a character of two bytes and one of two code units
Astral == <<"a", "U+00E9", "U+D83D", "U+DE00">>

Fragmentations ==
  UNION {Splits(SubSeq(Letters, 1, k)) : k \in 0..MaxText}
  \cup {<< <<>>, <<"a">>, <<>> >>}
  \cup {<<Astral>>, <<SubSeq(Astral, 1, 2), SubSeq(Astral, 3, 4)>>}

\* new RenderStream(...), lines 59-68
StreamInit ==
  /\ NoSession
  /\ server = NoServer
  /\ NoSinks
  /\ \E fragments \in Fragmentations, maxStackDepth \in 1..MaxStackDepth :
       stream = [buffer |-> <<>>, done |-> FALSE, continuation |-> FALSE, n |-> 0,
                 maxStackDepth |-> maxStackDepth, fragments |-> fragments,
                 rest |-> fragments, emitted |-> <<>>, pushed |-> <<>>,
                 reading |-> FALSE, pending |-> FALSE, starts |-> 0]

Ended(st) == \E i \in 1..Len(st.pushed) : st.pushed[i] = Null

\* the consumer pulls: a _read(n) is made when the last one has pushed
Read(n) ==
  /\ ~Ended(stream)
  /\ ~stream.reading
  /\ stream' = read([stream EXCEPT !.reading = TRUE], n)
  /\ UNCHANGED <<session, server, sinks>>

\* process.nextTick(cb) of line 99 comes due
Tick ==
  /\ stream.pending
  /\ stream' = mountComponentAsync([stream EXCEPT !.pending = FALSE], 0)
  /\ UNCHANGED <<session, server, sinks>>

StreamNext ==
  \/ \E n \in 1..MaxPull : Read(n)
  \/ Tick

StreamSpec == StreamInit /\ [][StreamNext]_vars

-----------------------------------------------------------------------------
(* Adler32Stream of ReactServerAsyncRendering.js, lines 31-56, and the     *)
(* pipe of line 181 that feeds it.  A chunk pushed by the RenderStream is  *)
(* a string; the readable side turns it into a buffer of UTF-8 bytes, and  *)
(* _transform turns the bytes back into a string before hashing.  Strings  *)
(* are hashed by their UTF-16 code units.                                  *)

MOD == 65521

\* String.prototype.charCodeAt over the characters of the stream texts
charCodeAt ==
  [c \in {"a", "b", "c", "d", "e", "f", "g", "h", "U+00E9", "U+D83D", "U+DE00", "U+FFFD"} |->
     CASE c = "a" -> 97 [] c = "b" -> 98 [] c = "c" -> 99 [] c = "d" -> 100
       [] c = "e" -> 101 [] c = "f" -> 102 [] c = "g" -> 103 [] c = "h" -> 104
       [] c = "U+00E9" -> 233 [] c = "U+D83D" -> 55357 [] c = "U+DE00" -> 56832
       [] c = "U+FFFD" -> 65533]

charCodes(text) == [i \in 1..Len(text) |-> charCodeAt[text[i]]]

IsHighSurrogate(u) == u >= 55296 /\ u <= 56319
IsLowSurrogate(u) == u >= 56320 /\ u <= 57343

ReplacementBytes == <<239, 191, 189>>

\* the UTF-8 bytes of the code point cp
utf8(cp) ==
  IF cp < 128 THEN <<cp>>
  ELSE IF cp < 2048 THEN <<192 + (cp \div 64), 128 + (cp % 64)>>
  ELSE IF cp < 65536
  THEN <<224 + (cp \div 4096), 128 + ((cp \div 64) % 64), 128 + (cp % 64)>>
  ELSE <<240 + (cp \div 262144), 128 + ((cp \div 4096) % 64), 128 + ((cp \div 64) % 64),
         128 + (cp % 64)>>

\* Buffer.from(string, 'utf8') over the code units of the string: a surrogate
\* without its partner becomes the bytes of U+FFFD
RECURSIVE toBuffer(_)
toBuffer(units) ==
  IF units = <<>> THEN <<>>
  ELSE IF IsHighSurrogate(units[1]) /\ Len(units) >= 2 /\ IsLowSurrogate(units[2])
  THEN utf8(65536 + (units[1] - 55296) * 1024 + (units[2] - 56320))
       \o toBuffer(SubSeq(units, 3, Len(units)))
  ELSE IF IsHighSurrogate(units[1]) \/ IsLowSurrogate(units[1])
  THEN ReplacementBytes \o toBuffer(Tail(units))
  ELSE utf8(units[1]) \o toBuffer(Tail(units))

IsContinuation(b) == b >= 128 /\ b <= 191

\* the number of continuation bytes a lead byte announces, -1 for a byte that
\* cannot lead
Announced(b) ==
  IF b < 128 THEN 0
  ELSE IF b >= 194 /\ b <= 223 THEN 1
  ELSE IF b >= 224 /\ b <= 239 THEN 2
  ELSE IF b >= 240 /\ b <= 244 THEN 3
  ELSE -1

\* the continuation bytes found from index from on, at most k of them
RECURSIVE Continuations(_, _, _)
Continuations(bytes, from, k) ==
  IF k = 0 \/ from > Len(bytes) THEN 0
  ELSE IF ~IsContinuation(bytes[from]) THEN 0
  ELSE 1 + Continuations(bytes, from + 1, k - 1)

\* the code units of one complete sequence
unitsOf(seq) ==
  CASE Len(seq) = 1 -> <<seq[1]>>
    [] Len(seq) = 2 -> <<(seq[1] - 192) * 64 + (seq[2] - 128)>>
    [] Len(seq) = 3 -> <<(seq[1] - 224) * 4096 + (seq[2] - 128) * 64 + (seq[3] - 128)>>
    [] Len(seq) = 4 ->
         LET cp == (seq[1] - 240) * 262144 + (seq[2] - 128) * 4096
                   + (seq[3] - 128) * 64 + (seq[4] - 128)
         IN  <<55296 + ((cp - 65536) \div 1024), 56320 + ((cp - 65536) % 1024)>>

\* chunk.toString('utf-8'), line 40: the code units of the decoded string; a
\* byte that cannot lead and a sequence cut short each decode to U+FFFD
RECURSIVE toString(_)
toString(bytes) ==
  IF bytes = <<>> THEN <<>>
  ELSE IF Announced(bytes[1]) = -1 THEN <<65533>> \o toString(Tail(bytes))
  ELSE LET k == Announced(bytes[1])
           c == Continuations(bytes, 2, k)
       IN  IF c = k
           THEN unitsOf(SubSeq(bytes, 1, k + 1)) \o toString(SubSeq(bytes, k + 2, Len(bytes)))
           ELSE <<65533>> \o toString(SubSeq(bytes, c + 2, Len(bytes)))

\* rollingAdler32(''), lines 35 and 142
rollingAdler32Start == [a |-> 1, b |-> 0]

\* rollingAdler32(data, prev): the two sums carried on from prev
RECURSIVE rollingAdler32(_, _)
rollingAdler32(units, prev) ==
  IF units = <<>> THEN prev
  ELSE rollingAdler32(Tail(units),
                      [a |-> (prev.a + units[1]) % MOD,
                       b |-> (prev.b + ((prev.a + units[1]) % MOD)) % MOD])

\* rollingHash.hash(): a | (b << 16), a signed 32-bit integer
hash(h) == IF h.b >= 32768 THEN (h.b - 65536) * 65536 + h.a ELSE h.b * 65536 + h.a

\* _transform without the update of the rolling hash
transformUnhashed(ad, chunk) == [ad EXCEPT !.passed = Append(@, chunk)]

\* _transform(chunk, encoding, next), lines 39-43
transform(ad, chunk) ==
  [ad EXCEPT !.rollingHash = rollingAdler32(toString(chunk), @),
             !.passed = Append(@, chunk)]

\* the getter resolving at once whether or not the stream has ended
getHashEarly(ad) ==
  [ad EXCEPT !.promises = Append(@, [resolved |-> TRUE, value |-> hash(ad.rollingHash),
                                     early |-> ~ad.done])]

\* get hash(), lines 46-55: a new promise on every read
getHash(ad) ==
  [ad EXCEPT !.promises =
     Append(@, IF ad.done
               THEN [resolved |-> TRUE, value |-> hash(ad.rollingHash), early |-> FALSE]
               ELSE [resolved |-> FALSE, value |-> 0, early |-> TRUE])]

\* the 'end' event: the listener of line 36, then those of lines 51-53 in the
\* order the promises were made
emitEnd(ad) ==
  [ad EXCEPT !.done = TRUE, !.ended = TRUE,
             !.promises = [i \in 1..Len(@) |->
                             IF @[i].resolved THEN @[i]
                             ELSE [@[i] EXCEPT !.resolved = TRUE,
                                               !.value = hash(ad.rollingHash)]]]

\* new Adler32Stream(), lines 33-37, with what the pipe has taken from the source
Adler32Stream ==
  [rollingHash |-> rollingAdler32Start, done |-> FALSE, ended |-> FALSE,
   taken |-> 0, finished |-> FALSE, passed |-> <<>>, promises |-> <<>>]

\* readable.pipe(dest): the next chunk of the source reaches dest; an empty
\* chunk never left the source, and null ends dest
Pipe ==
  /\ adler.taken < Len(stream.pushed)
  /\ adler' =
       LET chunk == stream.pushed[adler.taken + 1]
           ad == [adler EXCEPT !.taken = @ + 1]
       IN  IF chunk = Null THEN [ad EXCEPT !.finished = TRUE]
           ELSE IF chunk.s = <<>> THEN ad
           ELSE transform(ad, toBuffer(charCodes(chunk.s)))
  /\ UNCHANGED <<session, server, stream, callback, lazy, buffered>>

\* 'end' is emitted once dest was ended and everything went through
End ==
  /\ adler.finished
  /\ ~adler.ended
  /\ adler' = emitEnd(adler)
  /\ UNCHANGED <<session, server, stream, callback, lazy, buffered>>

\* the caller reads the hash property
Hash ==
  /\ Len(adler.promises) < MaxReads
  /\ adler' = getHash(adler)
  /\ UNCHANGED <<session, server, stream, callback, lazy, buffered>>

-----------------------------------------------------------------------------
(* The res branch of renderToStringStream and renderToStaticMarkupStream,  *)
(* ReactServerAsyncRendering.js lines 139-165 and 205-229.  The callback   *)
(* record holds the closure variables (buffer, hash), the strings written  *)
(* to res, what the rendering chain has still to deliver, whether a        *)
(* continuation waits for the next tick, and the promise returned.         *)

\* res.write(buffer)
write(cb, data) == [cb EXCEPT !.written = Append(@, data)]

\* lines 158-162 and 223-227
doneRes(cb) ==
  [write(cb, cb.buffer) EXCEPT
     !.released = TRUE, !.resolved = TRUE, !.writesAtResolve = Len(cb.written) + 1,
     !.value = IF cb.static THEN Undefined ELSE Num(hash(cb.hash))]

\* lines 147-157 and 212-222, up to the call of cb
textRes(cb, text) ==
  LET h == IF cb.static THEN cb.hash ELSE rollingAdler32(charCodes(text), cb.hash)
      b == cb.buffer \o text
  IN  IF Len(b) >= BufferLimit
      THEN [write(cb, b) EXCEPT !.hash = h, !.buffer = <<>>, !.pending = TRUE]
      ELSE [cb EXCEPT !.hash = h, !.buffer = b]

\* the rendering chain handed the callbacks of the res branch
RECURSIVE mountComponentAsyncRes(_)
mountComponentAsyncRes(cb) ==
  IF cb.rest = <<>> THEN doneRes(cb)
  ELSE LET next == textRes([cb EXCEPT !.rest = Tail(@)], Head(cb.rest))
       IN  IF next.pending THEN next ELSE mountComponentAsyncRes(next)

\* renderToStringStream(element, res) or renderToStaticMarkupStream(element,
\* res): the promise executor runs the chain up to its first deferral
CallRes ==
  /\ ~callback.called
  /\ callback' = mountComponentAsyncRes([callback EXCEPT !.called = TRUE])
  /\ UNCHANGED <<session, server, stream, adler, lazy, buffered>>

\* process.nextTick(cb) of lines 153 and 218 comes due
TickRes ==
  /\ callback.pending
  /\ callback' = mountComponentAsyncRes([callback EXCEPT !.pending = FALSE])
  /\ UNCHANGED <<session, server, stream, adler, lazy, buffered>>

\* one element is rendered either through the stream or into a res
HashInit ==
  /\ NoSession
  /\ server = NoServer
  /\ buffered = NoBuffered
  /\ \E fragments \in Fragmentations :
       \/ /\ \E maxStackDepth \in 1..MaxStackDepth :
               stream = [buffer |-> <<>>, done |-> FALSE, continuation |-> FALSE, n |-> 0,
                         maxStackDepth |-> maxStackDepth, fragments |-> fragments,
                         rest |-> fragments, emitted |-> <<>>, pushed |-> <<>>,
                         reading |-> FALSE, pending |-> FALSE, starts |-> 0]
          /\ adler = Adler32Stream
          /\ callback = NoCallback
          /\ lazy = NoLazy
       \/ /\ stream = NoStream
          /\ adler = NoAdler
          /\ lazy = NoLazy
          /\ \E static \in BOOLEAN :
               callback = [buffer |-> <<>>, hash |-> rollingAdler32Start, written |-> <<>>,
                           fragments |-> fragments, rest |-> fragments, static |-> static,
                           called |-> FALSE, pending |-> FALSE, released |-> FALSE,
                           resolved |-> FALSE, writesAtResolve |-> 0, value |-> Undefined]

HashNext ==
  \/ /\ stream # NoStream
     /\ \/ \E n \in 1..MaxPull : Read(n)
        \/ Tick
        \/ Pipe
        \/ End
        \/ Hash
  \/ /\ callback # NoCallback
     /\ \/ CallRes
        \/ TickRes

HashSpec == HashInit /\ [][HashNext]_vars

-----------------------------------------------------------------------------
(* StringLazyTree.js.  The file holds the module twice: lines 14-83 with a *)
(* run that returns {result, done}, and lines 99-156 with a run that       *)
(* returns a string, or null for a tree already drained.  A tree is        *)
(* [children, childIndex]; an entry of children is {text}, {fn} or         *)
(* {subTree}, with or without a filter.  A producer function is           *)
(* [k |-> "fn", returns |-> the tree it builds].  The record w is          *)
(* instrumentation: the producers invoked, in order, each with the text    *)
(* taken from text entries before it was invoked.                          *)

\* StringLazyTree(), lines 14-18 and 99-103
StringLazyTree == [children |-> <<>>, hasChildIndex |-> FALSE, childIndex |-> 0]

Producer(subTree) == [k |-> "fn", returns |-> subTree]

\* queueText, queueFunction and queueSubTree, lines 21-31 and 106-116
queueText(t, text, filter) ==
  [t EXCEPT !.children = Append(@, [text |-> Str(text), fn |-> Undefined,
                                    subTree |-> Undefined, filter |-> filter])]
queueFunction(t, fn, filter) ==
  [t EXCEPT !.children = Append(@, [text |-> Undefined, fn |-> fn, subTree |-> Undefined,
                                    filter |-> filter])]
queueSubTree(t, subTree, filter) ==
  [t EXCEPT !.children = Append(@, [text |-> Undefined, fn |-> Undefined,
                                    subTree |-> subTree, filter |-> filter])]

\* a filter as the one of ReactServerRenderingAsync.js lines 143-153 without
\* its closure variable: a text that begins with a newline gets one more
NewlineFilter == [k |-> "filter"]

\* lines 61-63 and 142-144: if (child.filter) childText = child.filter(childText)
filtered(child, text) ==
  IF child.filter = Undefined THEN text
  ELSE IF text # <<>> /\ Head(text) = "\n" THEN <<"\n">> \o text ELSE text

\* the producer called on every visit of its entry, its tree kept the first time
instantiateChildAgain(child, path, w) ==
  IF child.fn = Undefined THEN [child |-> child, w |-> w]
  ELSE [child |-> [child EXCEPT !.subTree = IF @ = Undefined THEN child.fn.returns ELSE @],
        w |-> [w EXCEPT !.invoked = Append(@, [path |-> path, text |-> w.text])]]

\* lines 48-54 and 132-135: instantiate the child if necessary
instantiateChild(child, path, w) ==
  IF child.subTree # Undefined THEN [child |-> child, w |-> w]
  ELSE [child |-> [child EXCEPT !.subTree = child.fn.returns, !.fn = Null],
        w |-> [w EXCEPT !.invoked = Append(@, [path |-> path, text |-> w.text])]]

\* length <= 0
Spent(len) == ~len.inf /\ len.n <= 0

RunReturned(t, acc, done, threw, w) ==
  [tree |-> t, result |-> acc, done |-> done, threw |-> threw, w |-> w]

Emit(w, text) == [w EXCEPT !.text = @ \o text]

RECURSIVE run(_, _, _, _)
RECURSIVE loop(_, _, _, _, _)

\* the tree t with the subtree of its entry i instantiated and run
Stored(t, i, child, r) == [t EXCEPT !.children[i] = [child EXCEPT !.subTree = r.tree]]

\* lines 145-149, filteredText being the text of the subtree
afterFilter(t, len, acc, path, filteredText, w) ==
  IF Spent(RemainingLength(len, filteredText))
  THEN RunReturned(t, Str(acc \o filteredText), FALSE, "none", w)
  ELSE loop(t, RemainingLength(len, filteredText), acc \o filteredText, path, w)

\* lines 136-149: what run does with the value r the subtree returned, t
\* holding the subtree as the call left it
afterSubTree(t, len, acc, path, r) ==
  IF r.threw # "none" THEN RunReturned(t, Str(acc), FALSE, r.threw, r.w)
  ELSE IF r.result = Null
  THEN loop([t EXCEPT !.childIndex = @ + 1], len, acc, path, r.w)
  ELSE afterFilter(t, len, acc, path, filtered(t.children[t.childIndex + 1], r.result.s),
                   r.w)

subTreeRun(t, len, acc, path, i, child, r) ==
  afterSubTree(Stored(t, i, child, r), len, acc, path, r)

\* lines 130-136: the entry i is a producer or a subtree, inst its instantiation
intoSubTree(t, len, acc, path, i, inst) ==
  subTreeRun(t, len, acc, path, i, inst.child,
             run(inst.child.subTree, len, Append(path, i), inst.w))

\* lines 127-129 and 145-149: a text entry
textEntry(t, len, acc, path, text, w) ==
  IF Spent(RemainingLength(len, text))
  THEN RunReturned([t EXCEPT !.childIndex = @ + 1], Str(acc \o text), FALSE, "none",
                Emit(w, text))
  ELSE loop([t EXCEPT !.childIndex = @ + 1], RemainingLength(len, text), acc \o text,
            path, Emit(w, text))

\* lines 124-151: the while loop, result being the text gathered so far
loop(t, len, acc, path, w) ==
  IF t.childIndex >= Len(t.children) THEN RunReturned(t, Str(acc), FALSE, "none", w)
  ELSE IF t.children[t.childIndex + 1].text # Undefined
  THEN textEntry(t, len, acc, path,
                 filtered(t.children[t.childIndex + 1], t.children[t.childIndex + 1].text.s),
                 w)
  ELSE intoSubTree(t, len, acc, path, t.childIndex + 1,
                   instantiateChild(t.children[t.childIndex + 1],
                               Append(path, t.childIndex + 1), w))

\* run(tree, length), lines 117-152: a string, or null once the tree is drained
run(t, len, path, w) ==
  IF t.hasChildIndex /\ t.childIndex >= Len(t.children)
  THEN RunReturned(t, Null, TRUE, "none", w)
  ELSE loop([t EXCEPT !.hasChildIndex = TRUE], len, <<>>, path, w)

\* runToFinish(tree), lines 154-156
runToFinish(t, w) == run(t, Infinity, <<>>, w)

RECURSIVE runWithDone(_, _, _, _)
RECURSIVE loopWithDone(_, _, _, _, _)

\* lines 64-68, filteredText being the text of the subtree
afterFilterWithDone(t, len, acc, path, filteredText, w) ==
  IF Spent(RemainingLength(len, filteredText))
  THEN RunReturned(t, Str(acc \o filteredText), FALSE, "none", w)
  ELSE loopWithDone(t, RemainingLength(len, filteredText), acc \o filteredText, path, w)

\* lines 55-68: childText is the result of the subtree; null has no length
afterSubTreeWithDone(t, len, acc, path, r) ==
  IF r.threw # "none" THEN RunReturned(t, Str(acc), FALSE, r.threw, r.w)
  ELSE IF r.result = Null
  THEN RunReturned([t EXCEPT !.childIndex = @ + 1], Str(acc \o <<"n", "u", "l", "l">>), FALSE,
                "TypeError", r.w)
  ELSE afterFilterWithDone([t EXCEPT !.childIndex = @ + (IF r.done THEN 1 ELSE 0)],
                           len, acc, path,
                           filtered(t.children[t.childIndex + 1], r.result.s), r.w)

subTreeRunWithDone(t, len, acc, path, i, child, r) ==
  afterSubTreeWithDone(Stored(t, i, child, r), len, acc, path, r)

\* lines 46-56
intoSubTreeWithDone(t, len, acc, path, i, inst) ==
  subTreeRunWithDone(t, len, acc, path, i, inst.child,
                     runWithDone(inst.child.subTree, len, Append(path, i), inst.w))

\* lines 43-45 and 64-68
textEntryWithDone(t, len, acc, path, text, w) ==
  IF Spent(RemainingLength(len, text))
  THEN RunReturned([t EXCEPT !.childIndex = @ + 1], Str(acc \o text), FALSE, "none",
                Emit(w, text))
  ELSE loopWithDone([t EXCEPT !.childIndex = @ + 1], RemainingLength(len, text),
                    acc \o text, path, Emit(w, text))

\* lines 40-69
loopWithDone(t, len, acc, path, w) ==
  IF t.childIndex >= Len(t.children) THEN RunReturned(t, Str(acc), TRUE, "none", w)
  ELSE IF t.children[t.childIndex + 1].text # Undefined
  THEN textEntryWithDone(t, len, acc, path,
                         filtered(t.children[t.childIndex + 1],
                                  t.children[t.childIndex + 1].text.s), w)
  ELSE intoSubTreeWithDone(t, len, acc, path, t.childIndex + 1,
                           instantiateChild(t.children[t.childIndex + 1],
                                       Append(path, t.childIndex + 1), w))

\* run(tree, length), lines 33-71: {result, done}
runWithDone(t, len, path, w) ==
  IF t.hasChildIndex /\ t.childIndex >= Len(t.children)
  THEN RunReturned(t, Null, TRUE, "none", w)
  ELSE loopWithDone([t EXCEPT !.hasChildIndex = TRUE], len, <<>>, path, w)

\* runToFinish(tree), lines 73-75
runToFinishWithDone(t, w) == runWithDone(t, Infinity, <<>>, w)

\* the texts queued, and what is queued: a text, a producer or a subtree
LazyTexts == {<<>>, <<"a">>, <<"b", "c">>}

TextEntries == {[kind |-> "text", arg |-> text] : text \in LazyTexts}

TreeEntries(trees) ==
  {[kind |-> "fn", arg |-> t] : t \in trees} \cup {[kind |-> "subTree", arg |-> t] : t \in trees}

Queue(t, entry) ==
  CASE entry.kind = "text" -> queueText(t, entry.arg, Undefined)
    [] entry.kind = "fn" -> queueFunction(t, Producer(entry.arg), Undefined)
    [] entry.kind = "subTree" -> queueSubTree(t, entry.arg, Undefined)

\* the trees of at most two entries
TreesOf(entries) ==
  {StringLazyTree}
  \cup {Queue(StringLazyTree, a) : a \in entries}
  \cup {Queue(Queue(StringLazyTree, a), b) : a \in entries, b \in entries}

TextTrees == TreesOf(TextEntries)

\* a producer inside a subtree inside a producer, and three entries in a row
DeepTrees ==
  { queueText(
      queueFunction(queueText(StringLazyTree, <<"a">>, Undefined),
                    Producer(queueSubTree(queueText(StringLazyTree, <<"b">>, Undefined), t,
                                          Undefined)),
                    Undefined),
      <<"c">>, Undefined) :
      t \in TreesOf(TreeEntries({queueText(StringLazyTree, <<"d", "e">>, Undefined)})) }
  \cup { queueFunction(queueSubTree(queueText(StringLazyTree, <<"a">>, Undefined), t, Undefined),
                       Producer(queueText(StringLazyTree, <<"f">>, Undefined)), Undefined) :
           t \in TextTrees }

\* a subtree of two texts, one of which begins with a newline
NewlineTrees ==
  { queueText(queueText(StringLazyTree, <<"a">>, Undefined), <<"\n", "b">>, Undefined),
    queueText(queueText(StringLazyTree, <<"\n", "b">>, Undefined), <<"a">>, Undefined) }

\* entries with a filter: a text, a producer and a subtree
FilteredTrees ==
  { queueText(queueText(StringLazyTree, <<"a">>, NewlineFilter), <<"\n", "b">>, NewlineFilter) }
  \cup { queueText(queueFunction(StringLazyTree, Producer(t), NewlineFilter),
                   <<"c">>, Undefined) : t \in NewlineTrees }
  \cup { queueSubTree(queueText(StringLazyTree, <<"c">>, Undefined), t, NewlineFilter) :
           t \in NewlineTrees }

LazyTrees == TreesOf(TextEntries \cup TreeEntries(TextTrees)) \cup DeepTrees \cup FilteredTrees

Variants == {"result and done", "string or null"}

Budgets == {Finite(k) : k \in 1..MaxBudget} \cup {Infinity}

LazyInit ==
  /\ NoSession
  /\ server = NoServer
  /\ stream = NoStream
  /\ adler = NoAdler
  /\ callback = NoCallback
  /\ buffered = NoBuffered
  /\ \E t \in LazyTrees, variant \in Variants, budget \in Budgets :
       lazy = [variant |-> variant, fresh |-> t, tree |-> t, length |-> budget, out |-> <<>>,
               done |-> FALSE, threw |-> "none", calls |-> 0,
               w |-> [invoked |-> <<>>, text |-> <<>>]]

\* what the caller keeps of the value r a call returned
Called(lz, r) ==
  [lz EXCEPT !.tree = r.tree, !.w = r.w, !.threw = r.threw, !.calls = @ + 1,
             !.done = r.threw = "none" /\ r.done,
             !.out = IF r.threw # "none" \/ r.result = Null THEN @ ELSE @ \o r.result.s]

\* one more run(tree, length) on a tree that has not reported done
Run ==
  /\ ~lazy.length.inf
  /\ ~lazy.done
  /\ lazy.threw = "none"
  /\ lazy' = Called(lazy, IF lazy.variant = "string or null"
                          THEN run(lazy.tree, lazy.length, <<>>, lazy.w)
                          ELSE runWithDone(lazy.tree, lazy.length, <<>>, lazy.w))
  /\ UNCHANGED <<session, server, stream, adler, callback, buffered>>

\* runToFinish(tree) on a fresh tree
RunToFinish ==
  /\ lazy.length.inf
  /\ lazy.calls = 0
  /\ lazy' = [Called(lazy, IF lazy.variant = "string or null"
                           THEN runToFinish(lazy.tree, lazy.w)
                           ELSE runToFinishWithDone(lazy.tree, lazy.w))
                EXCEPT !.done = TRUE]
  /\ UNCHANGED <<session, server, stream, adler, callback, buffered>>

LazyNext == Run \/ RunToFinish

LazySpec == LazyInit /\ [][LazyNext]_vars

-----------------------------------------------------------------------------
(* bufferedStream of src/unnamed/part_002, lines 136-163.  The wrapper is  *)
(* [bufferSize, buffer], its buffer undefined until the first write; the   *)
(* stream under it records the data of the write and end calls made on it  *)
(* and counts its flush calls.  given is instrumentation: the data   *)
(* handed to the wrapper, in order.                                        *)

\* bufferedStream(stream, bufferSize), lines 136-139
bufferedStream(bufferSize) ==
  [bufferSize |-> bufferSize, buffer |-> Undefined, forwarded |-> <<>>, flushes |-> 0,
   ended |-> FALSE, given |-> <<>>, calls |-> 0]

\* stream.write(this.buffer); stream.flush()
forward(b) == [b EXCEPT !.forwarded = Append(@, b.buffer), !.flushes = @ + 1]

\* lines 141-142: this.buffer = this.buffer || ""; this.buffer += data
appended(b, data) ==
  [b EXCEPT !.buffer = Str((IF Truthy(b.buffer) THEN b.buffer.s ELSE <<>>) \o data),
            !.given = Append(@, Str(data))]

\* lines 144-148, b being the wrapper with data in its buffer
writeThrough(b) ==
  IF Len(b.buffer.s) >= b.bufferSize
  THEN [forward(b) EXCEPT !.buffer = Str(<<>>)]
  ELSE b

\* write(data), lines 140-149
bufferedWrite(b, data) == writeThrough(appended(b, data))

\* flush(), lines 151-154
bufferedFlush(b) == forward(b)

\* end(data), lines 156-160; end() has no data and stream.end(undefined)
\* writes none
bufferedEnd(b, data) ==
  [forward(b) EXCEPT !.forwarded = IF data = Undefined THEN @ ELSE Append(@, data),
                     !.ended = TRUE,
                     !.given = IF data = Undefined THEN @ ELSE Append(@, data)]

BufferedData == {<<>>, <<"a">>, <<"b", "c">>}

BufferedInit ==
  /\ NoSession
  /\ server = NoServer
  /\ stream = NoStream
  /\ adler = NoAdler
  /\ callback = NoCallback
  /\ lazy = NoLazy
  /\ \E bufferSize \in 1..MaxBufferSize : buffered = bufferedStream(bufferSize)

Callable == ~buffered.ended /\ buffered.calls < MaxBufferedCalls

BufferedWrite(data) ==
  /\ Callable
  /\ buffered' = [bufferedWrite(buffered, data) EXCEPT !.calls = @ + 1]
  /\ UNCHANGED <<session, server, stream, adler, callback, lazy>>

BufferedFlush ==
  /\ Callable
  /\ buffered' = [bufferedFlush(buffered) EXCEPT !.calls = @ + 1]
  /\ UNCHANGED <<session, server, stream, adler, callback, lazy>>

BufferedEnd(data) ==
  /\ Callable
  /\ buffered' = [bufferedEnd(buffered, data) EXCEPT !.calls = @ + 1]
  /\ UNCHANGED <<session, server, stream, adler, callback, lazy>>

BufferedNext ==
  \/ \E data \in BufferedData : BufferedWrite(data)
  \/ BufferedFlush
  \/ \E data \in {Str(d) : d \in BufferedData} \cup {Undefined} : BufferedEnd(data)

BufferedSpec == BufferedInit /\ [][BufferedNext]_vars

-----------------------------------------------------------------------------
(* What the claims are stated in.                                          *)

IsPrefix(a, b) == Len(a) <= Len(b) /\ SubSeq(b, 1, Len(a)) = a

\* the result of one render(element, Infinity, makeStaticMarkup) on a fresh tree
Unlimited ==
  renderImpl(Node(element, FALSE, EMPTY_OBJECT, ~makeStaticMarkup), Infinity,
             makeStaticMarkup, Undefined, <<>>, [log |-> <<>>, queue |-> <<>>])

Finished == phase \in {"done", "ended"}

\* more than one call has returned text
SeveralCalls == out # result.text /\ result.text # <<>>

Resolutions == {i \in 1..Len(world.log) : world.log[i].ev \in {"construct", "call"}}

EventsOf(ev, at) == {i \in 1..Len(world.log) : world.log[i].ev = ev /\ world.log[i].at = at}

RECURSIVE SumOver(_, _)
SumOver(f, n) == IF n = 0 THEN 0 ELSE f[n] + SumOver(f, n - 1)

\* the number of component elements met when v is expanded down to DOM elements
RECURSIVE ComponentNodes(_)
ComponentNodes(v) ==
  IF v.k = "arr"
  THEN SumOver([i \in 1..Len(v.items) |-> ComponentNodes(v.items[i])], Len(v.items))
  ELSE IF v.k # "elem" THEN 0
  ELSE IF v.type.k = "comp"
  THEN 1 + ComponentNodes(RenderOutput(Components[v.type.name],
                                       [props |-> v.props, context |-> EMPTY_OBJECT,
                                        state |-> Components[v.type.name].state]))
  ELSE ComponentNodes(Get(v.props, "children"))

-----------------------------------------------------------------------------
(* C1: for a fixed length k >= 1 used by render and by every next, the     *)
(* texts returned until next returns null concatenate to exactly the text  *)
(* one render(element, Infinity) returns, in both modes.                   *)
C1_BudgetInvariance ==
  (Finished /\ uniform) =>
    (Unlimited.threw = "none" /\ Unlimited.done /\ out = Unlimited.text)

C1_Witness ==
  /\ phase = "ended" /\ uniform /\ ~length.inf /\ length.n = 8
  /\ SeveralCalls
  /\ element.type.k = "comp"

(* C2: whatever lengths the calls use, the text accumulated after every    *)
(* call is a prefix of the text of the unlimited render, and the whole of  *)
(* it once the tree is done; a tree whose unlimited render throws is never *)
(* reported done.                                                          *)
C2_DocumentOrder ==
  /\ Unlimited.threw = "none" => IsPrefix(out, Unlimited.text)
  /\ Finished => (Unlimited.threw = "none" /\ out = Unlimited.text)

C2_Witness ==
  /\ phase = "paused" /\ ~uniform /\ SeveralCalls
  /\ tree.childIndex = 1
  /\ tree.children[2].k = "node" /\ tree.children[2].hasChildIndex

(* C3: no component element is constructed or called twice, none has its   *)
(* componentWillMount or render run twice, and a finished session has      *)
(* resolved exactly as many components as the tree has component nodes.    *)
C3_ExactlyOnce ==
  /\ \A i \in Resolutions :
       /\ \A j \in Resolutions : world.log[i].at = world.log[j].at => i = j
       /\ Cardinality(EventsOf("componentWillMount", world.log[i].at)) <= 1
       /\ Cardinality(EventsOf("render", world.log[i].at)) <= 1
  /\ Finished =>
       /\ Cardinality(Resolutions) = ComponentNodes(element)
       /\ \A i \in Resolutions :
            world.log[i].ev = "construct" =>
              /\ Cardinality(EventsOf("render", world.log[i].at)) = 1
              /\ Cardinality(EventsOf("componentWillMount", world.log[i].at)) =
                   IF Components[world.log[i].name].componentWillMount.has THEN 1 ELSE 0

C3_Witness ==
  /\ phase = "ended" /\ ~length.inf /\ length.n = 1 /\ SeveralCalls
  /\ ComponentNodes(element) >= 3
  /\ Cardinality(Resolutions) = ComponentNodes(element)

(* C4: for a tree that renders without error, no call throws and repeated  *)
(* next calls with lengths >= 1 reach a done result after finitely many    *)
(* calls: every call that returns not done has added at least one          *)
(* character to the output, which never grows beyond the text of the       *)
(* unlimited render; and every call that returns finishes the tree,        *)
(* advances the child index of a node on the paused chain, or opens a node *)
(* of that chain (makes its children array and emits its open tag).        *)
RECURSIVE IndexAdvanced(_, _)
IndexAdvanced(t, u) ==
  /\ t.k = "node" /\ u.k = "node"
  /\ t.hasChildIndex /\ u.hasChildIndex
  /\ \/ u.childIndex > t.childIndex
     \/ /\ u.childIndex = t.childIndex
        /\ t.childIndex < Len(t.children)
        /\ u.childIndex < Len(u.children)
        /\ IndexAdvanced(t.children[t.childIndex + 1], u.children[u.childIndex + 1])

RECURSIVE Opened(_, _)
Opened(t, u) ==
  /\ t.k = "node" /\ u.k = "node"
  /\ u.hasChildIndex
  /\ \/ ~t.hasChildIndex
     \/ /\ u.childIndex = t.childIndex
        /\ t.childIndex < Len(t.children)
        /\ u.childIndex < Len(u.children)
        /\ Opened(t.children[t.childIndex + 1], u.children[u.childIndex + 1])

NextReturned == phase = "paused" /\ phase' \in {"paused", "done"}

C4_Termination ==
  /\ [](Unlimited.threw = "none" =>
          /\ phase \in {"start", "paused", "done", "ended"}
          /\ Len(out) <= Len(Unlimited.text))
  /\ [][NextReturned => (phase' = "done" \/ Len(out') > Len(out))]_vars
  /\ [][NextReturned =>
          (phase' = "done" \/ IndexAdvanced(tree, tree') \/ Opened(tree, tree'))]_vars

C4_Witness ==
  /\ phase = "ended" /\ ~uniform /\ SeveralCalls
  /\ element.type.k = "comp" /\ element.type.name = "Wrapper"
  /\ Len(out) > 64

\* as claimed: every call completes a position or advances a child index (a
\* nested position that completes advances the index of its parent)
C4_AsClaimed ==
  [][NextReturned => (phase' = "done" \/ IndexAdvanced(tree, tree'))]_vars

-----------------------------------------------------------------------------
(* Markup the claims expect.                                               *)

OpenTag(tag, attrs) == <<"<">> \o tag \o attrs \o <<">">>
CloseTag(tag) == <<"<", "/">> \o tag \o <<">">>
RootMarker == IF makeStaticMarkup THEN <<>> ELSE DATA_REACTROOT
DivOf(c) == Elem(Tag(DIV), [children |-> c])
NullComponentElement == Elem(Comp("NullComponent"), EMPTY_OBJECT)
FalseComponentElement == Elem(Comp("FalseComponent"), EMPTY_OBJECT)
EmptyDiv == OpenTag(DIV, RootMarker) \o CloseTag(DIV)
PlaceholderDiv == OpenTag(DIV, RootMarker) \o REACT_EMPTY \o CloseTag(DIV)

RECURSIVE Flatten(_)
Flatten(items) ==
  IF items = <<>> THEN <<>>
  ELSE (IF Head(items).k = "arr" THEN Flatten(Head(items).items)
        ELSE IF Head(items).k \in {"null", "false"} THEN <<>>
        ELSE <<Head(items)>>) \o Flatten(Tail(items))

Flattened(t) == Flatten(elementChildren(t.element.props.children))

ChildrenMatch(t) ==
  /\ Len(t.children) = Len(Flattened(t))
  /\ \A i \in 1..Len(t.children) :
       IF Flattened(t)[i].k \in {"str", "num"}
       THEN t.children[i].k = Flattened(t)[i].k /\ t.children[i] = Flattened(t)[i]
       ELSE /\ t.children[i].k = "node"
            /\ ~t.children[i].root
            /\ i > t.childIndex + 1 => t.children[i].element = Flattened(t)[i]

RECURSIVE FlattenedBelow(_)
FlattenedBelow(t) ==
  (t.k = "node" /\ t.hasChildIndex /\ t.childrenState = "array") =>
    /\ ChildrenMatch(t)
    /\ \A i \in 1..Len(t.children) : FlattenedBelow(t.children[i])

C6_ChildrenFlattening ==
  /\ FlattenedBelow(tree)
  /\ (/\ Finished
      /\ element.type.k = "tag"
      /\ Get(element.props, "children").k = "arr"
      /\ Flatten(element.props.children.items) = <<>>)
       => out = OpenTag(element.type.name, RootMarker) \o CloseTag(element.type.name)

C6_Witness ==
  /\ phase = "paused"
  /\ element = DivOf(Arr(Window(7, 3)))
  /\ Len(tree.children) = 3
  /\ tree.children[2] = Str(<<"&">>)
  /\ tree.children[3].k = "node"

(* C7: a component that renders null yields '<!-- react-empty -->' in      *)
(* non-static mode and '' in static mode, a component that renders false   *)
(* yields '' in both modes, and either is done in the one call that        *)
(* reaches it, at the root and as a child.                                 *)
C7_TerminalOutput ==
  /\ element = NullComponentElement =>
       /\ phase \in {"start", "done", "ended"}
       /\ phase # "start" => out = IF makeStaticMarkup THEN <<>> ELSE REACT_EMPTY
  /\ element \in {FalseComponentElement,
                  Elem(Comp("Passthrough"), [children |-> FalseComponentElement])} =>
       /\ phase \in {"start", "done", "ended"}
       /\ phase # "start" => out = <<>>
  /\ element = DivOf(NullComponentElement) =>
       /\ (tree.hasChildIndex /\ tree.childrenState = "array") =>
            ~tree.children[1].hasChildIndex
       /\ Finished => out = IF makeStaticMarkup THEN EmptyDiv ELSE PlaceholderDiv
  /\ (element = DivOf(Arr(<<Num(42), FalseComponentElement>>)) /\ Finished) =>
       out = OpenTag(DIV, RootMarker)
             \o (IF makeStaticMarkup THEN <<"4", "2">>
                 ELSE REACT_TEXT \o <<"4", "2">> \o REACT_TEXT_END)
             \o CloseTag(DIV)

C7_Witness ==
  /\ phase = "ended" /\ ~makeStaticMarkup
  /\ element = NullComponentElement
  /\ out = REACT_EMPTY
  /\ Cardinality(EventsOf("render", <<(<<>>), 0>>)) = 1

(* C8: a DOM element without content (children absent, null or '', no      *)
(* value, defaultValue or dangerouslySetInnerHTML) is done in one call,    *)
(* as '<tag attrs/>' when its tag is a void tag and as '<tag attrs></tag>' *)
(* otherwise.                                                              *)
Childless(props) ==
  /\ \/ Get(props, "children").k \in {"undef", "null"}
     \/ StrictEq(Get(props, "children"), Str(<<>>))
  /\ DOMAIN props \subseteq {"children"}

RECURSIVE HostOf(_)
HostOf(el) ==
  IF el.k = "elem" /\ el.type.k = "comp" /\ el.type.name = "Wrapper"
  THEN HostOf(el.props.children) ELSE el

RECURSIVE WrapperDepth(_)
WrapperDepth(el) ==
  IF el.k = "elem" /\ el.type.k = "comp" /\ el.type.name = "Wrapper"
  THEN 1 + WrapperDepth(el.props.children) ELSE 0

RECURSIVE Retag(_, _)
Retag(el, tag) ==
  IF el.type.k = "comp" THEN Elem(el.type, [children |-> Retag(el.props.children, tag)])
  ELSE Elem(Tag(tag), el.props)

\* the text of the unlimited render of the element with its pre turned into a div
DivTwin ==
  renderImpl(Node(Retag(element, DIV), FALSE, EMPTY_OBJECT, ~makeStaticMarkup), Infinity,
             makeStaticMarkup, Undefined, <<>>, [log |-> <<>>, queue |-> <<>>]).text

\* the index of the n-th '>' of text at or after index i
RECURSIVE NthClose(_, _, _)
NthClose(text, n, i) ==
  IF text[i] = ">" THEN (IF n = 1 THEN i ELSE NthClose(text, n - 1, i + 1))
  ELSE NthClose(text, n, i + 1)

\* what lies between the open tag of the host element and its close tag
Content(text, d) ==
  SubSeq(text, NthClose(text, d + 1, 1) + 1, Len(text) - 6 * (d + 1))

Newlines(text) == Cardinality({i \in 1..Len(text) : text[i] = "\n"})

RECURSIVE NewlinesIn(_)
NewlinesIn(v) ==
  IF v.k = "str" THEN Newlines(v.s)
  ELSE IF v.k = "arr"
  THEN SumOver([i \in 1..Len(v.items) |-> NewlinesIn(v.items[i])], Len(v.items))
  ELSE IF v.k = "elem" THEN NewlinesIn(Get(v.props, "children"))
  ELSE 0

PreRooted ==
  /\ HostOf(element).k = "elem"
  /\ HostOf(element).type = Tag(PRE)

\* the twin's text up to the name of the host tag is the text's own
SameUpToHost(text, twin, d) ==
  \A close \in {NthClose(text, d + 1, 1) - (IF d = 0 THEN Len(RootMarker) ELSE 0) - 4} :
    SubSeq(text, 1, close) = SubSeq(twin, 1, close)

NewlineEaten(text, twin, d) ==
  \A content \in {Content(twin, d)} :
    /\ Content(text, d) =
         (IF content # <<>> /\ content[1] = "\n" THEN <<"\n">> ELSE <<>>) \o content
    /\ SameUpToHost(text, twin, d)

C9_NewlineEating ==
  /\ (Finished /\ PreRooted) =>
       \A twin \in {DivTwin} : NewlineEaten(out, twin, WrapperDepth(element))
  /\ (Finished /\ HostOf(element).k = "elem"
               /\ HostOf(element).type \in {Tag(DIV), Tag(IMG)}
               /\ "dangerouslySetInnerHTML" \notin DOMAIN HostOf(element).props) =>
       Newlines(out) = NewlinesIn(element)

C9_Witness ==
  /\ phase = "ended" /\ makeStaticMarkup /\ SeveralCalls
  /\ ~length.inf /\ length.n = 1
  /\ element = Elem(Tag(PRE), [children |-> Arr(<<Str(<<"\n", "b">>), Str(<<"\n", "b">>)>>)])
  /\ out = <<"<", "p", "r", "e", ">", "\n", "\n", "b", "\n", "b", "<", "/", "p", "r", "e", ">">>

(* C10: the context handed to a component, class or function, has exactly  *)
(* the keys of its contextTypes, each with the value the context           *)
(* accumulated from its ancestors has for it (undefined when it has        *)
(* none), and is empty for a component without contextTypes.               *)
Exposed(name) ==
  {world.log[i].exposed : i \in {j \in Resolutions : world.log[j].name = name}}

C10_ContextScoping ==
  /\ \A i \in Resolutions :
       /\ DOMAIN world.log[i].exposed =
            IF Components[world.log[i].name].contextTypes.has
            THEN Components[world.log[i].name].contextTypes.keys ELSE {}
       /\ \A n \in DOMAIN world.log[i].exposed :
            world.log[i].exposed[n] =
              IF n \in DOMAIN world.log[i].context THEN world.log[i].context[n]
              ELSE Undefined
  /\ (Finished /\ element = ContextTree) =>
       /\ Exposed("ClassChildWithContext") = {[text |-> Purple]}
       /\ Exposed("StatelessChildWithContext") = {[text |-> Purple]}
       /\ Exposed("ClassChildWithWrongContext") = {[foo |-> Undefined]}
       /\ Exposed("ClassChildWithoutContext") = {EMPTY_OBJECT}
       /\ Exposed("StatelessChildWithoutContext") = {EMPTY_OBJECT}
       /\ out = OpenTag(DIV, RootMarker)
                \o OpenTag(DIV, <<>>) \o Purple.s \o CloseTag(DIV)
                \o OpenTag(DIV, <<>>) \o Purple.s \o CloseTag(DIV)
                \o OpenTag(DIV, <<>>) \o CloseTag(DIV)
                \o OpenTag(DIV, <<>>) \o CloseTag(DIV)
                \o OpenTag(DIV, <<>>) \o CloseTag(DIV)
                \o CloseTag(DIV)

C10_Witness ==
  /\ phase = "ended" /\ element = ContextTree /\ SeveralCalls
  /\ \E i \in Resolutions :
       /\ world.log[i].name = "ClassChildWithContext"
       /\ world.log[i].exposed = [text |-> Purple]
       /\ world.log[i].context = [text |-> Purple, other |-> Str(<<"x">>)]

(* C11: the context a component position receives is the merge, root       *)
(* first, of what the getChildContext hooks of its ancestor components     *)
(* returned: a nearer ancestor's value wins for a key, other keys          *)
(* accumulate, ancestors without contextTypes pass it on unchanged, and a  *)
(* component's own contribution reaches neither itself nor its siblings    *)
(* nor its ancestors.                                                      *)
IsAncestor(a, b) ==
  \/ a[1] = b[1] /\ a[2] < b[2]
  \/ Len(a[1]) < Len(b[1]) /\ SubSeq(b[1], 1, Len(a[1])) = a[1]

RECURSIVE ApplyAll(_, _)
ApplyAll(state, partials) ==
  IF partials = <<>> THEN state
  ELSE ApplyAll([n \in DOMAIN state \cup DOMAIN Head(partials) |->
                   IF n \in DOMAIN Head(partials) THEN Head(partials)[n] ELSE state[n]],
                Tail(partials))

\* the state of a mounted instance of def
MountedState(def) == ApplyAll(def.state, def.componentWillMount.setState)

\* what an instance of def contributes to the context of its descendants
Contribution(def) ==
  [n \in DOMAIN def.getChildContext.value \cup def.getChildContext.stateKeys |->
     IF n \in def.getChildContext.stateKeys
     THEN (IF n \in DOMAIN MountedState(def) THEN MountedState(def)[n] ELSE Undefined)
     ELSE def.getChildContext.value[n]]

\* the contributions of the ancestors of position at among the first j events
RECURSIVE Inherited(_, _)
Inherited(j, at) ==
  IF j = 0 THEN EMPTY_OBJECT
  ELSE IF world.log[j].ev = "getChildContext" /\ IsAncestor(world.log[j].at, at)
  THEN [n \in DOMAIN Inherited(j - 1, at) \cup DOMAIN Contribution(Components[world.log[j].name]) |->
          IF n \in DOMAIN Contribution(Components[world.log[j].name])
          THEN Contribution(Components[world.log[j].name])[n]
          ELSE Inherited(j - 1, at)[n]]
  ELSE Inherited(j - 1, at)

C11_ContextPropagation ==
  /\ \A i \in Resolutions :
       world.log[i].context = Inherited(Len(world.log), world.log[i].at)
  /\ (Finished /\ element = Elem(Comp("Parent"), [children |-> ContextOverrideTree("BothChild")])) =>
       /\ Exposed("BothChild") = {[text |-> Red, other |-> Str(<<"x">>)]}
       /\ Exposed("StatelessChildWithContext") = {[text |-> Purple]}
       /\ Exposed("SelfProvider") = {[text |-> Purple]}
       /\ Exposed("Passthrough") = {EMPTY_OBJECT}
  /\ (Finished /\ element = ContextOverrideTree("StatelessChildWithContext")) =>
       out = OpenTag(DIV, RootMarker)
             \o OpenTag(DIV, <<>>) \o Red.s \o CloseTag(DIV)
             \o OpenTag(DIV, <<>>) \o CloseTag(DIV)
             \o OpenTag(DIV, <<>>) \o CloseTag(DIV)
             \o CloseTag(DIV)

C11_Witness ==
  /\ phase = "ended" /\ SeveralCalls
  /\ element = Elem(Comp("Parent"), [children |-> ContextOverrideTree("BothChild")])
  /\ \E i \in Resolutions :
       /\ world.log[i].name = "BothChild"
       /\ world.log[i].context = [text |-> Red, other |-> Str(<<"x">>)]
  /\ \E i \in Resolutions :
       /\ world.log[i].name = "SelfProvider"
       /\ world.log[i].context = [text |-> Purple, other |-> Str(<<"x">>)]

(* C12: for each class component the events at its position are, once      *)
(* each and in this order, construct, componentWillMount if declared,      *)
(* getChildContext if declared, render; the state updates enqueued by      *)
(* componentWillMount are applied in enqueue order before getChildContext  *)
(* and render read the state; and no other lifecycle hook is invoked.      *)
LifecycleOf(at) ==
  [i \in 1..Cardinality({j \in 1..Len(world.log) : world.log[j].at = at}) |->
     world.log[CHOOSE j \in 1..Len(world.log) :
                 /\ world.log[j].at = at
                 /\ Cardinality({k \in 1..j : world.log[k].at = at}) = i].ev]

ExpectedLifecycle(def) ==
  <<"construct">>
  \o (IF def.componentWillMount.has THEN <<"componentWillMount">> ELSE <<>>)
  \o (IF def.getChildContext.has THEN <<"getChildContext">> ELSE <<>>)
  \o <<"render">>

DivWith(text) == OpenTag(DIV, RootMarker) \o text \o CloseTag(DIV)

C12_LifecycleOrder ==
  /\ \A i \in Resolutions :
       world.log[i].ev = "construct" =>
         /\ IsPrefix(LifecycleOf(world.log[i].at),
                     ExpectedLifecycle(Components[world.log[i].name]))
         /\ phase \in {"paused", "done", "ended"} =>
              LifecycleOf(world.log[i].at) = ExpectedLifecycle(Components[world.log[i].name])
  /\ \A j \in 1..Len(world.log) :
       /\ world.log[j].ev \in {"construct", "call", "componentWillMount",
                               "getChildContext", "render"}
       /\ world.log[j].ev \notin Components[world.log[j].name].otherHooks
  /\ Finished =>
       /\ element = Elem(Comp("WillMount"), EMPTY_OBJECT) => out = DivWith(<<"b">>)
       /\ element = Elem(Comp("WillMountTwice"), EMPTY_OBJECT) => out = DivWith(<<"c">>)
       /\ element = Elem(Comp("TestComponent"), EMPTY_OBJECT) => out = DivWith(<<"T">>)
       /\ element = StateContextTree => out = DivWith(<<"f", "o", "o">>)

C12_Witness ==
  /\ phase = "ended"
  /\ element = StateContextTree
  /\ LifecycleOf(<<(<<>>), 0>>) = <<"construct", "componentWillMount", "getChildContext", "render">>
  /\ \E i \in Resolutions :
       /\ world.log[i].name = "StatelessChildWithContext"
       /\ world.log[i].exposed = [text |-> Str(<<"f", "o", "o">>)]

(* C13: resolution throws when a component defines getChildContext and its *)
(* type has no childContextTypes, and when getChildContext returns a key   *)
(* childContextTypes does not list; the component's render has not run     *)
(* then, and the call that throws adds no text to the output.              *)
ContextErrors == {"ChildContextTypesMissing", "ChildContextKeyUndeclared"}

Misdeclared(def) ==
  /\ def.getChildContext.has
  /\ \/ ~def.childContextTypes.has
     \/ \E n \in DOMAIN Contribution(def) : n \notin def.childContextTypes.keys

UndeclaredKeyTree ==
  Elem(Tag(DIV), [children |-> Arr(<<Str(<<"a">>), Elem(Comp("UndeclaredKey"), EMPTY_OBJECT)>>)])

C13_ContextDeclarationErrors ==
  /\ [](\A i \in Resolutions :
          Misdeclared(Components[world.log[i].name]) =>
            /\ phase = IF Components[world.log[i].name].childContextTypes.has
                       THEN "ChildContextKeyUndeclared" ELSE "ChildContextTypesMissing"
            /\ EventsOf("render", world.log[i].at) = {}
            /\ ~Components[world.log[i].name].childContextTypes.has
                 => EventsOf("getChildContext", world.log[i].at) = {})
  /\ [](element = Elem(Comp("NoChildContextTypes"), EMPTY_OBJECT) =>
          /\ phase \in {"start", "ChildContextTypesMissing"}
          /\ out = <<>>)
  /\ [](element = UndeclaredKeyTree =>
          /\ ~Finished
          /\ IsPrefix(out, OpenTag(DIV, RootMarker)
                           \o (IF makeStaticMarkup THEN <<"a">>
                               ELSE REACT_TEXT \o <<"a">> \o REACT_TEXT_END)))
  /\ [][phase' \in ContextErrors => (out' = out /\ result' = result)]_vars

C13_Witness ==
  /\ phase = "ChildContextKeyUndeclared"
  /\ element = UndeclaredKeyTree
  /\ out # <<>>
  /\ \E i \in Resolutions :
       /\ world.log[i].name = "UndeclaredKey"
       /\ EventsOf("getChildContext", world.log[i].at) # {}
       /\ EventsOf("render", world.log[i].at) = {}

(* C14: when the output of a component, after any number of nested         *)
(* component expansions, is undefined, the call that reaches it throws and *)
(* returns no text, in both modes and at any depth of the tree; a null     *)
(* output does not throw.                                                  *)
\* what a component element expands to, its components rendered in turn
RECURSIVE Expansion(_)
Expansion(v) ==
  IF v.k = "elem" /\ v.type.k = "comp"
  THEN Expansion(RenderOutput(Components[v.type.name],
                              [props |-> v.props, context |-> EMPTY_OBJECT,
                               state |-> MountedState(Components[v.type.name])]))
  ELSE v

\* some component position of the tree of v expands to kind
RECURSIVE ExpandsTo(_, _)
ExpandsTo(v, kind) ==
  IF v.k # "elem" THEN FALSE
  ELSE IF v.type.k = "comp" /\ Expansion(v).k # "elem" THEN Expansion(v).k = kind
  ELSE IF Expansion(v).type.k # "tag" THEN FALSE
  ELSE \E i \in 1..Len(Flatten(elementChildren(Get(Expansion(v).props, "children")))) :
         ExpandsTo(Flatten(elementChildren(Get(Expansion(v).props, "children")))[i], kind)

UndefinedTrees ==
  { Elem(Comp("UndefinedComponent"), EMPTY_OBJECT),
    Elem(Comp("UndefinedClass"), EMPTY_OBJECT),
    Elem(Comp("Passthrough"), EMPTY_OBJECT),
    Elem(Comp("Passthrough"), [children |-> Elem(Comp("UndefinedComponent"), EMPTY_OBJECT)]),
    Elem(Tag(DIV), [children |-> Arr(<<Str(<<"a">>), Elem(Comp("UndefinedComponent"), EMPTY_OBJECT)>>)]),
    Nest(Elem(Tag(DIV), [children |-> Elem(Comp("Passthrough"),
                                            [children |-> Elem(Comp("UndefinedClass"), EMPTY_OBJECT)])]), 1) }

C14_UndefinedIsFatal ==
  /\ [](element \in UndefinedTrees => ExpandsTo(element, "undef"))
  /\ [](ExpandsTo(element, "undef") =>
          /\ ~Finished
          /\ Unlimited.threw = "ResolvedToUndefined"
          /\ phase \in {"start", "paused", "ResolvedToUndefined"})
  /\ []((ExpandsTo(element, "null") /\ ~ExpandsTo(element, "undef")
           /\ element.type.k = "comp" /\ element.type.name \in {"NullComponent", "Wrapper"})
          => /\ phase \in {"start", "paused", "done", "ended"}
             /\ Unlimited.threw = "none")
  /\ [][phase' = "ResolvedToUndefined" => (out' = out /\ result' = result)]_vars

C14_Witness ==
  /\ phase = "ResolvedToUndefined"
  /\ makeStaticMarkup
  /\ out # <<>>
  /\ element = Nest(Elem(Tag(DIV), [children |-> Elem(Comp("Passthrough"),
                                  [children |-> Elem(Comp("UndefinedClass"), EMPTY_OBJECT)])]), 1)

(* C15: whenever the element of a tree position has a type that is not a   *)
(* string, a component class or a function, the call that reaches the      *)
(* position throws: no run over such a tree comes to a done result.        *)
Unsupported(v) == v.k = "elem" /\ v.type.k \notin {"tag", "comp"}

\* the root element, or a child of the root DOM element, has an unsupported type
HasUnsupported ==
  \/ Unsupported(element)
  \/ /\ element.type.k = "tag"
     /\ \E i \in 1..Len(Flatten(elementChildren(Get(element.props, "children")))) :
          Unsupported(Flatten(elementChildren(Get(element.props, "children")))[i])

C15_UnsupportedTypeIsFatal == HasUnsupported => ~Finished

(* C16: an entry point called with a value that is not an element throws   *)
(* before anything changes: the batching strategy, the transactions taken  *)
(* from the pool, the component instances, the data written and the        *)
(* streams handed out are as before the call, and nothing is returned.     *)
InvalidCall ==
  /\ server'.calls = server.calls + 1
  /\ server'.argument.k # "elem"

C16_InvalidArgument ==
  [][InvalidCall =>
       /\ server'.thrown = "Invariant Violation"
       /\ server'.returned = Undefined
       /\ server'.strategy = server.strategy
       /\ server'.pooled = server.pooled
       /\ server'.instances = server.instances
       /\ server'.written = server.written
       /\ server'.open = server.open]_vars

C16_Witness ==
  /\ server.calls = 2
  /\ server.entry = "renderToStringStream"
  /\ server.argument = Str(<<"n", "o", "t">>)
  /\ server.thrown = "Invariant Violation"
  /\ server.strategy = ReactDefaultBatchingStrategy
  /\ server.instances = 1 /\ server.pooled = 0 /\ server.written = <<>>

(* C17: in static mode the output never contains the root marker           *)
(* attribute, a text-boundary comment or the empty-render placeholder,     *)
(* whatever the tree and the lengths of the calls; string and number       *)
(* children appear as their escaped text and nothing else.                 *)
Contains(text, sub) ==
  \E i \in 1..(Len(text) - Len(sub) + 1) : SubSeq(text, i, i + Len(sub) - 1) = sub

Markers ==
  { <<"d", "a", "t", "a", "-", "r", "e", "a", "c", "t", "r", "o", "o", "t">>,
    <<"r", "e", "a", "c", "t", "-", "t", "e", "x", "t">>,
    <<"r", "e", "a", "c", "t", "-", "e", "m", "p", "t", "y">>,
    <<"<", "!", "-", "-">> }

Primitives(el) ==
  IF el.k = "elem" /\ Get(el.props, "children").k = "arr"
  THEN Flatten(el.props.children.items) ELSE <<>>

RECURSIVE EscapedTexts(_)
EscapedTexts(items) ==
  IF items = <<>> THEN <<>>
  ELSE escapeTextContentForBrowser(toStr(Head(items))) \o EscapedTexts(Tail(items))

C17_StaticSuppressesMarkers ==
  makeStaticMarkup =>
    /\ \A m \in Markers : ~Contains(out, m)
    /\ (/\ Finished
        /\ element.type = Tag(DIV)
        /\ Primitives(element) # <<>>
        /\ \A i \in 1..Len(Primitives(element)) : Primitives(element)[i].k \in {"str", "num"})
         => out = OpenTag(DIV, <<>>) \o EscapedTexts(Primitives(element)) \o CloseTag(DIV)
    /\ (Finished /\ element = DivOf(Arr(<<Str(<<"&">>), Num(42), Str(<<"<", "'">>)>>))) =>
         out = <<"<", "d", "i", "v", ">", "&", "a", "m", "p", ";", "4", "2",
                 "&", "l", "t", ";", "&", "#", "x", "2", "7", ";", "<", "/", "d", "i", "v", ">">>
    /\ (Finished /\ element = DivOf(Elem(Comp("Foo"), EMPTY_OBJECT))) =>
         out = OpenTag(DIV, <<>>) \o OpenTag(DIV, <<>>) \o CloseTag(DIV) \o CloseTag(DIV)

C17_Witness ==
  /\ phase = "ended" /\ makeStaticMarkup /\ SeveralCalls
  /\ element = DivOf(Arr(Window(1, 3)))
  /\ out = OpenTag(DIV, <<>>) \o <<"\n", "b">> \o CloseTag(DIV)

(* C18: in non-static mode the root marker attribute occurs at most once   *)
(* in the output, in the first open tag, straight after the tag name; it   *)
(* occurs exactly once in the complete output of a tree whose root         *)
(* resolves to a DOM element, and a resumed call never emits it again.     *)
RootMarkerName == <<"d", "a", "t", "a", "-", "r", "e", "a", "c", "t", "r", "o", "o", "t">>

Occurrences(text, sub) ==
  {i \in 1..(Len(text) - Len(sub) + 1) : SubSeq(text, i, i + Len(sub) - 1) = sub}

\* index i of text lies in its first open tag, one space after the tag name
AfterFirstTagName(text, i) ==
  /\ i > 3
  /\ text[1] = "<"
  /\ text[i - 1] = " "
  /\ \A j \in 2..(i - 2) : text[j] \notin {" ", ">", "<", "!"}

C18_RootMarker ==
  /\ [](~makeStaticMarkup =>
          /\ Cardinality(Occurrences(out, RootMarkerName)) <= 1
          /\ \A i \in Occurrences(out, RootMarkerName) : AfterFirstTagName(out, i)
          /\ (out # <<>> /\ SubSeq(out, 1, 2) # <<"<", "!">>) =>
               Cardinality(Occurrences(out, RootMarkerName)) = 1)
  /\ [][(phase = "paused" /\ ~makeStaticMarkup) =>
          Occurrences(out', RootMarkerName) = Occurrences(out, RootMarkerName)]_vars

C18_Witness ==
  /\ phase = "ended" /\ ~makeStaticMarkup /\ SeveralCalls
  /\ element = Nest(Elem(Tag(DIV), [children |-> Arr(Window(8, 3))]), 1)
  /\ Occurrences(out, RootMarkerName) = {6}

(* C19: every string or number child of a DOM element appears in the       *)
(* output in HTML-escaped form only, in static and in non-static mode, as  *)
(* a single child and as one of several children.                          *)
RECURSIVE EscapedChildren(_, _)
EscapedChildren(items, static) ==
  IF items = <<>> THEN <<>>
  ELSE (IF static THEN escapeTextContentForBrowser(toStr(Head(items)))
        ELSE REACT_TEXT \o escapeTextContentForBrowser(toStr(Head(items))) \o REACT_TEXT_END)
       \o EscapedChildren(Tail(items), static)

C19_TextEscaping ==
  /\ (/\ Finished
      /\ element.type = Tag(DIV)
      /\ Primitives(element) # <<>>
      /\ \A i \in 1..Len(Primitives(element)) : Primitives(element)[i].k \in {"str", "num"})
       => out = OpenTag(DIV, RootMarker)
                \o EscapedChildren(Primitives(element), makeStaticMarkup)
                \o CloseTag(DIV)
  /\ (/\ Finished
      /\ element.type = Tag(DIV)
      /\ DOMAIN element.props = {"children"}
      /\ element.props.children.k \in {"str", "num"}
      /\ toStr(element.props.children) # <<>>)
       => out = OpenTag(DIV, RootMarker)
                \o escapeTextContentForBrowser(toStr(element.props.children))
                \o CloseTag(DIV)

(* C20: for every way of cutting the markup into fragments and every       *)
(* sequence of pull sizes, what a RenderStream has pushed, followed by     *)
(* what it still buffers, is the concatenation of the fragments emitted so *)
(* far; when end-of-stream has been pushed the data chunks are the whole   *)
(* markup; end-of-stream is pushed by the first pull after the rendering   *)
(* has finished, once, and nothing is pushed after it.                     *)
RECURSIVE Concatenation(_)
Concatenation(chunks) ==
  IF chunks = <<>> THEN <<>>
  ELSE (IF Head(chunks) = Null THEN <<>> ELSE Head(chunks).s)
       \o Concatenation(Tail(chunks))

RECURSIVE Joined(_)
Joined(fragments) ==
  IF fragments = <<>> THEN <<>> ELSE Head(fragments) \o Joined(Tail(fragments))

C20_StreamConservation ==
  /\ [](Concatenation(stream.pushed) \o (IF stream.done THEN <<>> ELSE stream.buffer)
          = Joined(stream.emitted))
  /\ [](stream.emitted \o stream.rest = stream.fragments)
  /\ [](Ended(stream) =>
          /\ Concatenation(stream.pushed) = Joined(stream.fragments)
          /\ \A i \in 1..Len(stream.pushed) :
               stream.pushed[i] = Null <=> i = Len(stream.pushed))
  /\ [][Ended(stream) => stream'.pushed = stream.pushed]_vars
  /\ [][(stream.done /\ stream' # stream) =>
          stream'.pushed = Append(stream.pushed, Null)]_vars

C20_Witness ==
  /\ stream.fragments = << <<"a">>, <<"b", "c", "d">> >>
  /\ stream.pushed = <<Str(<<"a">>), Str(<<"b">>), Str(<<"c", "d">>), Str(<<>>), Null>>

-----------------------------------------------------------------------------
(* C21: the rolling hash an Adler32Stream has reached by updating it chunk *)
(* by chunk is the checksum of the concatenation of the bytes it has       *)
(* passed on, whatever the sizes pulled from the RenderStream were; and    *)
(* the hash the res branch has reached fragment by fragment is the         *)
(* checksum of the text emitted so far.                                    *)
Delivered(ad) == Joined(ad.passed)

EmittedRes(cb) == SubSeq(cb.fragments, 1, Len(cb.fragments) - Len(cb.rest))

C21_HashDeterminism ==
  /\ stream # NoStream =>
       adler.rollingHash = rollingAdler32(toString(Delivered(adler)), rollingAdler32Start)
  /\ (callback # NoCallback /\ ~callback.static) =>
       callback.hash = rollingAdler32(charCodes(Joined(EmittedRes(callback))),
                                      rollingAdler32Start)

C21_Witness ==
  /\ stream # NoStream
  /\ stream.fragments = <<Astral>>
  /\ adler.ended
  /\ Len(adler.passed) = 3
  /\ Delivered(adler) = toBuffer(charCodes(Astral))
  /\ hash(adler.rollingHash) # hash(rollingAdler32Start)

(* C22: a promise read from the hash property of the stream that          *)
(* renderToStringStream returns is resolved only once that stream has      *)
(* emitted 'end', which happens only after every chunk of the RenderStream *)
(* went through; from then on every promise, read before the end or after  *)
(* it, is resolved with the checksum of the concatenation of the chunks    *)
(* that went through.                                                      *)
FinalHash(ad) == hash(rollingAdler32(toString(Delivered(ad)), rollingAdler32Start))

C22_HashAvailability ==
  stream # NoStream =>
    /\ \A i \in 1..Len(adler.promises) :
         /\ adler.promises[i].resolved <=> adler.ended
         /\ adler.promises[i].resolved => adler.promises[i].value = FinalHash(adler)
    /\ adler.ended =>
         /\ Ended(stream)
         /\ adler.taken = Len(stream.pushed)
         /\ Delivered(adler) = Joined([i \in 1..Len(stream.pushed) - 1 |->
                                         toBuffer(charCodes(stream.pushed[i].s))])

C22_Witness ==
  /\ stream # NoStream
  /\ adler.ended
  /\ Len(adler.passed) >= 2
  /\ Len(adler.promises) = 2
  /\ adler.promises[1].early /\ ~adler.promises[2].early
  /\ adler.promises[1].value = adler.promises[2].value
  /\ adler.promises[1].value # hash(rollingAdler32Start)

(* C23: for the same markup, the bytes written to res by the res branch,   *)
(* in write order, are the bytes the returned stream delivers, namely the  *)
(* bytes of the markup; the promise of the res branch is resolved after    *)
(* its last write; and for renderToStringStream both hashes are the        *)
(* checksum of the markup.                                                 *)
MarkupBytes(fragments) == toBuffer(charCodes(Joined(fragments)))

MarkupHash(fragments) ==
  hash(rollingAdler32(charCodes(Joined(fragments)), rollingAdler32Start))

WrittenBytes(cb) == Joined([i \in 1..Len(cb.written) |-> toBuffer(charCodes(cb.written[i]))])

C23_CallbackAndStreamAgree ==
  /\ (callback # NoCallback /\ callback.resolved) =>
       /\ WrittenBytes(callback) = MarkupBytes(callback.fragments)
       /\ callback.writesAtResolve = Len(callback.written)
       /\ callback.rest = <<>> /\ ~callback.pending
       /\ ~callback.static => callback.value = Num(MarkupHash(callback.fragments))
  /\ (stream # NoStream /\ adler.ended) =>
       /\ Delivered(adler) = MarkupBytes(stream.fragments)
       /\ FinalHash(adler) = MarkupHash(stream.fragments)

(* C24: whenever at least one entry point has been called and none is     *)
(* still under way (every call has returned or thrown, and every stream    *)
(* handed out has reached its end or has thrown inside a pull), the        *)
(* process-wide batching strategy is the default one.                      *)
NothingUnderWay ==
  /\ server.calls > 0
  /\ \A i \in 1..Len(server.open) : server.open[i].failed

C24_BatchingStrategyRestored ==
  NothingUnderWay => server.strategy = ReactDefaultBatchingStrategy

(* C25: on a lazy tree of texts, subtrees and producers, for every budget  *)
(* k >= 1 no call of run(tree, k) fails, and once run has reported done    *)
(* the texts returned concatenate to the string that runToFinish returns   *)
(* on a fresh copy of the tree, which is the queued text in queue order.   *)
RECURSIVE TextOf(_)
TextOf(t) ==
  Joined([i \in 1..Len(t.children) |->
            IF t.children[i].text # Undefined THEN t.children[i].text.s
            ELSE IF t.children[i].subTree # Undefined THEN TextOf(t.children[i].subTree)
            ELSE TextOf(t.children[i].fn.returns)])

NoInstrumentation == [invoked |-> <<>>, text |-> <<>>]

Finish(lz) ==
  IF lz.variant = "string or null" THEN runToFinish(lz.fresh, NoInstrumentation)
  ELSE runToFinishWithDone(lz.fresh, NoInstrumentation)

BudgetInvariant(lz) ==
  /\ lz.threw = "none"
  /\ lz.done => /\ Finish(lz).threw = "none"
                /\ lz.out = Finish(lz).result.s
                /\ lz.out = TextOf(lz.fresh)

C25_LazyBudgetInvariance ==
  (lazy # NoLazy /\ lazy.fresh \notin FilteredTrees) => BudgetInvariant(lazy)

(* C26: a queued producer is invoked at most once however many run calls   *)
(* its subtree takes, and when it is invoked all the text queued before it *)
(* has been taken: every entry ahead of it, in its own tree and in the     *)
(* trees around it, is drained.                                            *)
SubTreeOf(entry) == IF entry.subTree # Undefined THEN entry.subTree ELSE entry.fn.returns

RECURSIVE TextBefore(_, _)
TextBefore(t, path) ==
  Joined([i \in 1..Head(path) - 1 |->
            IF t.children[i].text # Undefined THEN t.children[i].text.s
            ELSE TextOf(SubTreeOf(t.children[i]))])
  \o (IF Len(path) = 1 THEN <<>>
      ELSE TextBefore(SubTreeOf(t.children[Head(path)]), Tail(path)))

RECURSIVE EntryAt(_, _)
EntryAt(t, path) ==
  IF Len(path) = 1 THEN t.children[Head(path)]
  ELSE EntryAt(SubTreeOf(t.children[Head(path)]), Tail(path))

C26_ProducerMemoization ==
  lazy # NoLazy =>
    \A i \in 1..Len(lazy.w.invoked) :
      /\ \A j \in 1..Len(lazy.w.invoked) :
           lazy.w.invoked[i].path = lazy.w.invoked[j].path => i = j
      /\ EntryAt(lazy.fresh, lazy.w.invoked[i].path).fn # Undefined
      /\ lazy.w.invoked[i].text = TextBefore(lazy.fresh, lazy.w.invoked[i].path)

C26_Witness ==
  /\ lazy # NoLazy
  /\ lazy.variant = "string or null"
  /\ lazy.done
  /\ lazy.calls >= 4
  /\ Len(lazy.w.invoked) = 2
  /\ lazy.w.invoked[2].path = <<2, 2, 1>>
  /\ lazy.w.invoked[2].text = <<"a", "b">>

-----------------------------------------------------------------------------
(* What the claims about tree positions are stated in.                     *)

\* the position has reached its child loop: it has a childIndex
NonLeaf(p) == p.k = "node" /\ p.hasChildIndex

\* line 213 has run on the position
Released(p) == p.childrenState = "null"

\* the length of the children list that the element of the position gives
ListLength(p) ==
  Len(addChildrenToArray(elementChildren(p.element.props.children), <<>>, p.context))

(* C27: the childIndex of a position, once set, lies between 0 and the     *)
(* length of its children list and no call decreases it; a position that   *)
(* has a children list is done, for its parent (whose index has passed it) *)
(* or for the caller of next (the root), exactly when its childIndex has   *)
(* reached that length.                                                    *)
RECURSIVE IndexInRange(_)
IndexInRange(p) ==
  NonLeaf(p) =>
    /\ p.childIndex >= 0
    /\ p.childIndex <= ListLength(p)
    /\ Released(p) <=> p.childIndex = ListLength(p)
    /\ \A i \in 1..Len(p.children) :
         /\ IndexInRange(p.children[i])
         /\ NonLeaf(p.children[i]) => (Released(p.children[i]) <=> i <= p.childIndex)

RECURSIVE NeverDecreases(_, _)
NeverDecreases(t, u) ==
  NonLeaf(t) =>
    /\ NonLeaf(u)
    /\ u.childIndex >= t.childIndex
    /\ \A i \in 1..Len(t.children) :
         i <= Len(u.children) => NeverDecreases(t.children[i], u.children[i])

C27_ChildIndex ==
  /\ [](/\ IndexInRange(tree)
        /\ NonLeaf(tree) => (Released(tree) <=> Finished))
  /\ [][NeverDecreases(tree, tree')]_vars

C27_Witness ==
  /\ phase = "paused"
  /\ NonLeaf(tree) /\ tree.childIndex >= 1
  /\ \E i \in 1..tree.childIndex :
       NonLeaf(tree.children[i]) /\ Released(tree.children[i])
  /\ tree.childIndex < ListLength(tree)

(* C28: the children list of a position is made in the first call that     *)
(* reaches its child loop and never again: as long as the position is not  *)
(* done, a later call finds the same list, with the children before the    *)
(* stored index and those beyond the one the call stops at left as they    *)
(* were, and the text it returns continues the markup where the previous   *)
(* call stopped, so no open tag is emitted a second time.                  *)
RECURSIVE ListReused(_, _)
ListReused(t, u) ==
  (NonLeaf(t) /\ ~Released(t)) =>
    /\ NonLeaf(u)
    /\ ~Released(u) =>
         /\ Len(u.children) = Len(t.children)
         /\ \A i \in 1..Len(t.children) :
              IF i <= t.childIndex \/ i > u.childIndex + 1 \/ t.children[i].k # "node"
              THEN u.children[i] = t.children[i]
              ELSE ListReused(t.children[i], u.children[i])

\* the list of an open position is the one its element gives, and the
\* children not yet reached are as addChildrenToArray made them
RECURSIVE ListAsMade(_)
ListAsMade(p) ==
  (NonLeaf(p) /\ ~Released(p)) =>
    /\ Len(p.children) = ListLength(p)
    /\ \A i \in 1..Len(p.children) :
         IF i > p.childIndex + 1
         THEN p.children[i] =
                addChildrenToArray(elementChildren(p.element.props.children), <<>>,
                                   p.context)[i]
         ELSE ListAsMade(p.children[i])

C28_ChildrenComputedOnce ==
  /\ [] ListAsMade(tree)
  /\ [][ListReused(tree, tree')]_vars
  /\ [][(NextReturned /\ Unlimited.threw = "none") =>
          /\ Len(out') <= Len(Unlimited.text)
          /\ result'.text = SubSeq(Unlimited.text, Len(out) + 1, Len(out'))]_vars

C28_Witness ==
  /\ phase = "paused" /\ SeveralCalls
  /\ NonLeaf(tree) /\ tree.childIndex >= 1
  /\ NonLeaf(tree.children[tree.childIndex + 1])
  /\ ~Released(tree.children[tree.childIndex + 1])
  /\ tree.children[tree.childIndex + 1].childIndex >= 1

(* C29: a position that has reported done, to its parent (whose index has  *)
(* passed it) or to the caller of next (the root), has had its children    *)
(* list released; no later call changes anything at or below a child the   *)
(* parent's index has passed; and next on a done result only returns null: *)
(* the tree, the components and the output stay as they were.              *)
RECURSIVE DoneReleased(_)
DoneReleased(p) ==
  NonLeaf(p) =>
    \A i \in 1..Len(p.children) :
      IF i <= p.childIndex
      THEN NonLeaf(p.children[i]) =>
             (Released(p.children[i]) /\ p.children[i].children = <<>>)
      ELSE DoneReleased(p.children[i])

RECURSIVE DoneUntouched(_, _)
DoneUntouched(t, u) ==
  NonLeaf(t) =>
    IF Released(t) THEN u = t
    ELSE \A i \in 1..Len(t.children) :
           i <= Len(u.children) =>
             IF i <= t.childIndex THEN u.children[i] = t.children[i]
             ELSE DoneUntouched(t.children[i], u.children[i])

C29_DoneIsFinal ==
  /\ [](/\ DoneReleased(tree)
        /\ (result.done /\ NonLeaf(tree)) => (Released(tree) /\ tree.children = <<>>))
  /\ [][DoneUntouched(tree, tree')]_vars
  /\ [][result.done =>
          /\ phase = "done" /\ phase' = "ended"
          /\ tree' = tree /\ world' = world /\ out' = out /\ result' = result]_vars

C29_Witness ==
  /\ phase = "ended" /\ result.done /\ SeveralCalls
  /\ NonLeaf(tree) /\ Released(tree) /\ tree.childIndex >= 2
  /\ Len(world.log) > 0

(* C30: when the child a call resumes reports not done, the parent reports *)
(* not done in that call, its text ends with the child's text and its      *)
(* childIndex still designates that child; so in every paused state the    *)
(* positions that are open and not done form one chain from the root: the  *)
(* children before a position's index are done, those after it are not yet *)
(* reached, and only the child at the index may be open.                   *)
IsSuffix(a, b) == Len(a) <= Len(b) /\ SubSeq(b, Len(b) - Len(a) + 1, Len(b)) = a

\* the child the index of an open position designates
Current(p) == p.children[p.childIndex + 1]

Open(p) == NonLeaf(p) /\ ~Released(p)

\* the selectValues a position passes to its children, lines 202-204
SelectValuesBelow(p, selectValues) ==
  IF Truthy(selectValues) THEN selectValues
  ELSE getSelectValues(toLowerCase(p.element.type.name), p.element.props)

\* t before and u after a call of length len that resumes the open position
\* t, returned text to the caller of next; r is what the call on the current
\* child of t returns
RECURSIVE Propagated(_, _, _, _, _, _)
PropagatedFrom(t, u, len, selectValues, path, text, r) ==
  (r.threw = "none" /\ ~r.done) =>
    /\ Open(u)
    /\ u.childIndex = t.childIndex
    /\ Current(u) = r.tree
    /\ IsSuffix(r.text, text)
    /\ Propagated(Current(t), r.tree, len, SelectValuesBelow(t, selectValues),
                  Append(path, t.childIndex), text)

Propagated(t, u, len, selectValues, path, text) ==
  (Open(t) /\ Open(Current(t))) =>
    PropagatedFrom(t, u, len, selectValues, path, text,
                   renderImpl(Current(t), len, makeStaticMarkup,
                              SelectValuesBelow(t, selectValues),
                              Append(path, t.childIndex), world))

RECURSIVE OneChain(_)
OneChain(p) ==
  /\ Open(p)
  /\ p.childIndex < Len(p.children)
  /\ \A i \in 1..Len(p.children) :
       IF i <= p.childIndex THEN ~Open(p.children[i])
       ELSE IF i > p.childIndex + 1 THEN ~NonLeaf(p.children[i])
       ELSE NonLeaf(p.children[i]) => OneChain(p.children[i])

C30_PausePropagation ==
  /\ [](phase = "paused" => (~result.done /\ OneChain(tree)))
  /\ [][NextReturned =>
          Propagated(tree, tree', length', Undefined, <<>>, result'.text)]_vars

C30_Witness ==
  /\ phase = "paused" /\ SeveralCalls /\ ~uniform
  /\ Open(Current(tree))
  /\ Current(tree).childIndex >= 1
  /\ IsSuffix(<<"c">>, result.text)

(* C31: the text every call returns is made of whole fragments: the open   *)
(* tag of a position with its attributes, its close tag, one text child,   *)
(* or the whole markup of a position resolved in one step.  The text       *)
(* accumulated after any call, whatever the lengths used, ends on a        *)
(* boundary between two fragments of the final markup.                     *)
NoWorld == [log |-> <<>>, queue |-> <<>>]

\* the newline-eating filter over the fragments of the children: it acts on
\* the first fragment that is not empty
RECURSIVE NewlineFirst(_)
NewlineFirst(fragments) ==
  IF fragments = <<>> THEN <<>>
  ELSE IF Head(fragments) = <<>> THEN <<Head(fragments)>> \o NewlineFirst(Tail(fragments))
  ELSE IF Head(fragments)[1] = "\n"
       THEN <<(<<"\n">> \o Head(fragments))>> \o Tail(fragments)
  ELSE fragments

RECURSIVE FragmentsOf(_, _, _)
RECURSIVE ChildFragments(_, _, _, _)

\* the fragments of the children i.. of the opened position t
ChildFragments(t, i, selectValues, path) ==
  IF i > Len(t.children) THEN <<>>
  ELSE (IF t.children[i].k \in {"str", "num"}
        THEN <<childText(makeStaticMarkup, t.children[i])>>
        ELSE FragmentsOf(t.children[i], SelectValuesBelow(t, selectValues),
                         Append(path, i - 1)))
       \o ChildFragments(t, i + 1, selectValues, path)

\* r is what a call of length 1 returns on a position not yet reached: its
\* whole markup, or its open tag and the node with its children list
FragmentsFrom(r, selectValues, path) ==
  IF r.threw # "none" THEN <<>>
  ELSE IF r.done THEN <<r.text>>
  ELSE <<r.text>>
       \o (IF r.tree.filter = "newline"
           THEN NewlineFirst(ChildFragments(r.tree, 1, selectValues, path))
           ELSE ChildFragments(r.tree, 1, selectValues, path))
       \o <<CloseTag(toLowerCase(r.tree.element.type.name))>>

FragmentsOf(n, selectValues, path) ==
  FragmentsFrom(renderImpl(n, Finite(1), makeStaticMarkup, selectValues, path, NoWorld),
                selectValues, path)

RootFragments ==
  FragmentsOf(Node(element, FALSE, EMPTY_OBJECT, ~makeStaticMarkup), Undefined, <<>>)

Boundaries(fragments) ==
  {Len(Joined(SubSeq(fragments, 1, k))) : k \in 0..Len(fragments)}

C31_SuspensionAtChildBoundaries ==
  Unlimited.threw = "none" =>
    /\ Joined(RootFragments) = Unlimited.text
    /\ IsPrefix(out, Unlimited.text)
    /\ Len(out) \in Boundaries(RootFragments)

C31_Witness ==
  /\ phase = "paused" /\ SeveralCalls /\ ~uniform
  /\ Unlimited.threw = "none"
  /\ ~length.inf /\ Len(result.text) > length.n
  /\ Len(RootFragments) >= 6
  /\ Len(out) \in Boundaries(RootFragments) \ {0, Len(Unlimited.text)}

(* C32: a call of length k >= 1 that returns not done returns at least k   *)
(* characters, and no position starts a child once the text of the call    *)
(* has reached the length: every fragment of the returned text other than  *)
(* a close tag begins less than k characters into that text.               *)
RECURSIVE StartsOf(_, _, _)
RECURSIVE ChildStarts(_, _, _, _)

\* for each fragment of the children i.. of t, whether it starts a child
ChildStarts(t, i, selectValues, path) ==
  IF i > Len(t.children) THEN <<>>
  ELSE (IF t.children[i].k \in {"str", "num"} THEN <<TRUE>>
        ELSE StartsOf(t.children[i], SelectValuesBelow(t, selectValues),
                      Append(path, i - 1)))
       \o ChildStarts(t, i + 1, selectValues, path)

StartsFrom(r, selectValues, path) ==
  IF r.threw # "none" THEN <<>>
  ELSE IF r.done THEN <<TRUE>>
  ELSE <<TRUE>> \o ChildStarts(r.tree, 1, selectValues, path) \o <<FALSE>>

\* for each fragment of FragmentsOf, whether it starts a position or a text
\* child (TRUE) or is a close tag (FALSE)
StartsOf(n, selectValues, path) ==
  StartsFrom(renderImpl(n, Finite(1), makeStaticMarkup, selectValues, path, NoWorld),
             selectValues, path)

RootStarts ==
  StartsOf(Node(element, FALSE, EMPTY_OBJECT, ~makeStaticMarkup), Undefined, <<>>)

\* a call of length k has taken the output from before characters to after
NoChildStartedLate(fragments, starts, before, after, k) ==
  /\ Len(starts) = Len(fragments)
  /\ \A j \in 1..Len(fragments) :
       (/\ starts[j]
        /\ fragments[j] # <<>>
        /\ Len(Joined(SubSeq(fragments, 1, j - 1))) >= before
        /\ Len(Joined(SubSeq(fragments, 1, j))) <= after)
       => Len(Joined(SubSeq(fragments, 1, j - 1))) - before < k

CallReturned == phase \in {"start", "paused"} /\ phase' \in {"paused", "done"}

C32_BudgetHonoured ==
  [][(CallReturned /\ Unlimited.threw = "none") =>
       /\ phase' = "paused" => (~length'.inf /\ Len(result'.text) >= length'.n)
       /\ ~length'.inf =>
            NoChildStartedLate(RootFragments, RootStarts, Len(out), Len(out'),
                               length'.n)]_vars

C32_Witness ==
  /\ phase = "paused" /\ SeveralCalls /\ ~uniform
  /\ Unlimited.threw = "none"
  /\ ~length.inf /\ length.n = 8
  /\ Len(result.text) > 8
  /\ Len(RootStarts) >= 6

(* C33: the rendering chain of a RenderStream is started at most once.  A  *)
(* _read is made only when the previous one has pushed; at that moment the *)
(* stream is done or has a saved continuation, so a pull that finds the    *)
(* rendering under way drains the buffer or resumes the continuation: it   *)
(* delivers further fragments of the one walk, none of them twice.         *)
UnderWay(st) == st.starts >= 1 /\ ~st.done

C33_ReentrancyGuard ==
  /\ [](stream # NoStream =>
          /\ stream.starts <= 1
          /\ (UnderWay(stream) /\ ~stream.reading) => stream.continuation
          /\ stream.pending => (stream.reading /\ UnderWay(stream))
          /\ stream.emitted \o stream.rest = stream.fragments)
  /\ [][(stream # NoStream /\ UnderWay(stream) /\ ~stream.reading) =>
          /\ stream'.starts = 1
          /\ stream'.n = stream.n
          /\ \/ /\ stream'.emitted = stream.emitted
                /\ Len(stream'.buffer) < Len(stream.buffer)
             \/ Len(stream'.emitted) > Len(stream.emitted)
             \/ stream'.done]_vars

C33_Witness ==
  /\ stream # NoStream
  /\ stream.starts = 1
  /\ stream.pending /\ stream.continuation
  /\ Len(stream.pushed) >= 1
  /\ Len(stream.emitted) >= 3

(* C34: deferring the continuation to the next tick changes nothing that   *)
(* is pushed.  Every _read, once the ticks it left pending have run, has   *)
(* brought the stream to the state that the same _read brings a stream to  *)
(* whose maxStackDepth is never reached; so for the same pulls the chunks  *)
(* pushed are the same for every maxStackDepth, and null is pushed once,   *)
(* last.                                                                   *)
RECURSIVE AfterTicks(_)
AfterTicks(st) ==
  IF st.pending THEN AfterTicks(mountComponentAsync([st EXCEPT !.pending = FALSE], 0))
  ELSE st

\* the stream with a maxStackDepth that no chain reaches
NeverYielding(st) == [st EXCEPT !.maxStackDepth = Len(st.fragments) + 1]

SameButDepth(a, b) == [a EXCEPT !.maxStackDepth = 0] = [b EXCEPT !.maxStackDepth = 0]

C34_YieldIsTransparent ==
  /\ [](stream # NoStream =>
          \A i \in 1..Len(stream.pushed) :
            stream.pushed[i] = Null => i = Len(stream.pushed))
  /\ [][stream # NoStream =>
          IF stream.pending
          THEN SameButDepth(AfterTicks(stream'), AfterTicks(stream))
          ELSE \E n \in 1..MaxPull :
                 SameButDepth(AfterTicks(stream'),
                              read([NeverYielding(stream) EXCEPT !.reading = TRUE], n))]_vars

C34_Witness ==
  /\ stream # NoStream
  /\ stream.pending
  /\ stream.maxStackDepth = 1
  /\ Len(stream.buffer) >= 2
  /\ Len(stream.pushed) >= 1
  /\ AfterTicks(stream).done

(* C35: whenever a _read of an open stream mounts components, the batching *)
(* strategy injected at that moment is the server strategy, whatever other *)
(* sessions were started, pulled or ended in between.                      *)
C35_SessionIsolation ==
  server # NoServer =>
    \A i \in 1..Len(server.open) :
      server.open[i].mountedUnder \in {"none", ReactServerBatchingStrategy}

(* C36: whenever a call of render or next has ended, by returning or by    *)
(* throwing, the queue of the updater is empty: no setState callback of a  *)
(* component is left to be run while another component is resolved.        *)
C36_NoPendingUpdates ==
  phase # "none" => world.queue = <<>>

(* C37: in the finished markup, an option carries the bare attribute       *)
(* selected exactly when it lies below a select that has a value or a      *)
(* defaultValue and its own value is one of the values of that select      *)
(* (its value if it has one, else its defaultValue, taken as a list); the  *)
(* markup is the same for every mix of lengths.                            *)
OPEN_OPTION == <<"<">> \o OPTION

\* the indices of text at which the open tag of an option starts
OptionAt(text) ==
  {i \in 1..Len(text) :
     /\ i + Len(OPEN_OPTION) - 1 <= Len(text)
     /\ SubSeq(text, i, i + Len(OPEN_OPTION) - 1) = OPEN_OPTION}

SelectedAt(text, i) ==
  /\ i + Len(OPEN_OPTION \o SELECTED) - 1 <= Len(text)
  /\ SubSeq(text, i, i + Len(OPEN_OPTION \o SELECTED) - 1) = OPEN_OPTION \o SELECTED

\* for each open tag of an option in text, in order, whether it carries the
\* bare attribute selected
FlagsAt(text, at) ==
  [j \in 1..Cardinality(at) |->
     SelectedAt(text, CHOOSE i \in at : Cardinality({k \in at : k <= i}) = j)]

OptionFlags(text) == FlagsAt(text, OptionAt(text))

NoSelect == [k |-> "none"]

\* the values of a select: its value if it has one, else its defaultValue
EffectiveValues(props) ==
  IF hasOwnProperty(props, "value")
  THEN (IF props.value.k = "arr" THEN props.value ELSE Arr(<<props.value>>))
  ELSE (IF props.defaultValue.k = "arr" THEN props.defaultValue
        ELSE Arr(<<props.defaultValue>>))

\* for each option of v, in document order, whether it is to be selected
RECURSIVE ExpectedFlags(_, _)
ExpectedFlags(v, effective) ==
  IF v.k = "arr"
  THEN Joined([i \in 1..Len(v.items) |-> ExpectedFlags(v.items[i], effective)])
  ELSE IF v.k # "elem" \/ v.type.k # "tag" THEN <<>>
  ELSE (IF toLowerCase(v.type.name) = OPTION
        THEN << /\ effective # NoSelect
                /\ hasOwnProperty(v.props, "value")
                /\ \E i \in 1..Len(effective.items) : effective.items[i] = v.props.value >>
        ELSE <<>>)
       \o ExpectedFlags(Get(v.props, "children"),
                        IF /\ toLowerCase(v.type.name) = SELECT
                           /\ (hasOwnProperty(v.props, "value")
                               \/ hasOwnProperty(v.props, "defaultValue"))
                        THEN EffectiveValues(v.props)
                        ELSE effective)

C37_SelectValues ==
  (phase = "ended" /\ element \in SelectTrees) =>
    OptionFlags(out) = ExpectedFlags(element, NoSelect)

(* C38: a type that is a function without isReactComponent is only called, *)
(* with the props and the filtered context, and its return value is the    *)
(* element: componentWillMount, getChildContext and render are never       *)
(* invoked on the value it returned.                                       *)
Methods == {"componentWillMount", "getChildContext", "render"}

PlainFunction(name) == ~Components[name].isReactComponent

MethodsOfReturned(def) ==
  {m \in Methods :
     \/ m = "render" /\ def.hasRender
     \/ m = "componentWillMount" /\ def.hasRender /\ def.componentWillMount.has
     \/ m = "getChildContext" /\ def.hasRender /\ def.getChildContext.has}

RECURSIVE CompleteText(_)

\* the text of an entry with its filter applied to all of it
CompleteEntry(child) ==
  filtered(child,
           IF child.text # Undefined THEN child.text.s
           ELSE IF child.subTree # Undefined THEN CompleteText(child.subTree)
           ELSE CompleteText(child.fn.returns))

CompleteText(t) == Joined([i \in 1..Len(t.children) |-> CompleteEntry(t.children[i])])

C39_FilterOnCompleteText ==
  (lazy.calls >= 1 /\ lazy.done /\ lazy.threw = "none" /\ lazy.fresh \in FilteredTrees) =>
    lazy.out = CompleteText(lazy.fresh)

(* C40: after any sequence of write, flush and end calls on a              *)
(* bufferedStream, the data written to the stream under it, joined, is the *)
(* data handed to the wrapper, joined, as far as it has left the buffer:   *)
(* every character once and in order, all of it after flush or end; and    *)
(* nothing is written to the stream under it by a write that leaves fewer  *)
(* than bufferSize characters in the buffer.                               *)
Strings(chunks) == \A i \in 1..Len(chunks) : chunks[i].k = "str"

TextJoined(chunks) == Joined([i \in 1..Len(chunks) |-> chunks[i].s])

Held(b) == IF Truthy(b.buffer) THEN b.buffer.s ELSE <<>>

C40_BufferedConservation ==
  buffered # NoBuffered =>
    /\ Strings(buffered.forwarded)
    /\ IsPrefix(TextJoined(buffered.forwarded), TextJoined(buffered.given))
    /\ buffered.ended => TextJoined(buffered.forwarded) = TextJoined(buffered.given)
    /\ (buffered.flushes = 0) =>
         (buffered.forwarded = <<>> /\ Len(Held(buffered)) < buffered.bufferSize)

====
